---- MODULE Spec2Model ----
(***************************************************************************)
(* Document ingestion pipeline of foundry-rag-search/scripts/create_index.py *)
(* : the tenacity retry wrappers, the document-to-record mapper            *)
(* (process_pdf), the batch uploader (upload_documents) and the driver     *)
(* (main).                                                                 *)
(***************************************************************************)
EXTENDS Integers, Sequences, FiniteSets, TLC

(***************************************************************************)
(* Bounds of the model                                                     *)
(***************************************************************************)
\* number of PDF files the glob of the input folder may return
MaxFiles == 2
\* number of chunks, tables and images of a document whose mapping is explored
\* call by call
MaxDocRecords == 2
\* length of the texts chunk_content is explored on
MaxTextLen == 6
\* largest chunk_size chunk_content is explored with
MaxChunkSize == 3
\* largest max_retries create_response_with_retry is explored with
MaxRetries == 4
MaxEvents == 3
MaxInvocations == 3

(***************************************************************************)
(* Program constants                                                       *)
(***************************************************************************)
RETRY_ATTEMPTS == 3
RETRY_MIN_WAIT == 2
RETRY_MAX_WAIT == 30

VARIABLES
    \* ---- main ----
    pc,              \* "start" | "create_index" | "glob" | "files" | "upload" | "summary" | "exit"
    args,            \* the parsed command line
    exit_code,       \* exit status of the process, -1 while it runs
    exit_reason,     \* why the process ended: "" while it runs, "usage", "unhandled",
                     \* "index_only", "no_files" or "done"
    pdf_files,       \* list(pdf_folder.glob("*.pdf"))
    file_i,          \* position of the for loop over pdf_files
    all_documents,   \* accumulated search documents
    failed_files,    \* names of the files whose processing raised
    s_log,           \* the summary line logged at the end of main
    \* ---- upload_documents ----
    u_i,             \* loop offset i of range(0, len(documents), batch_size)
    total_succeeded,
    total_failed,
    u_log,           \* the "Upload complete" line
    u_ret,           \* what upload_documents returned to main (kind "pending" before)
    \* ---- history of the run ----
    attempted,       \* names of the files process_pdf was called on, in order
    results,         \* per call of process_pdf: did it raise, and the ids of the records
                     \* in its local list `documents` when it ended
    u_calls,         \* every client.upload_documents(batch) request, in order
    u_batches,       \* per loop iteration of upload_documents: the batch and how it ended
    \* ---- one call of process_pdf ----
    p_state,     \* "idle" | "returned" | "raised"
    p_cfg,       \* which optional backends are configured
    p_env,       \* what the collaborators did during the call
    p_result,    \* result of the call
    p_calls,     \* the embedding and vision requests made during the call, in order
    \* ---- one call of chunk_content ----
    c_state,     \* "idle" | "done"
    c_content,   \* the text handed to chunk_content (a sequence of characters)
    c_chunk_size,
    c_overlap,
    c_chunks,    \* the (chunk_idx, text) pairs the generator yielded, in order
    \* ---- one call of create_response_with_retry (agents_utils.py) ----
    cr_state,        \* "idle" | "calling" | "sleeping" | "returned" | "raised"
    cr_max_retries,
    cr_use_retry,
    cr_attempt,      \* the loop variable `attempt`
    cr_outs,         \* outcome of every responses.create call made so far, in order
    cr_sleeps,       \* how many times asyncio.sleep(1) was awaited
    cr_last_exception,
    cr_result,       \* what the caller gets: a response or an exception
    \* ---- one call of create_skillset (setup_indexer_pipeline.py) ----
    k_state,         \* "idle" | "created" | "raised"
    k_args,          \* the arguments of the call
    k_skillset,      \* the SearchIndexerSkillset handed to client.create_or_update_skillset
    \* ---- the subscription manager (subscription-manager/app) ----
    sm_state,        \* "down" | "up": has get_apim_service() built the APIMService
    sm_use_mock,     \* settings.use_mock_data
    sm_apim,         \* the state of each subscription held by Azure API Management
    sm_resp,         \* the last HTTP response: op, id, status and the subscriptions shown
    sm_want,         \* per id, the state the last successful suspend/activate asked for
    \* ---- one POST /invoke/stream request (sk-agents/routes.py) ----
    st_gen,          \* generate_events: "idle" | "waiting" | "joining" | "ended"
    st_task,         \* invoke_agent: "none" | "running" | "finally" | "done"
    st_queue,        \* event_queue, oldest first
    st_produced,     \* the intermediate events on_intermediate built, in order
    st_sent,         \* the events yielded to the client, in order
    \* ---- invocations on a live AgentManager (sk-agents) ----
    ag_inv,          \* every agent invocation started so far, in order of start
    ag_threads,      \* how many AzureAIAgentThread objects were constructed
    ag_uses,         \* <<thread, invocation>>: the thread was handed to the agent or deleted
    \* ---- one invocation of a tenacity-wrapped function ----
    r_fn,        \* name of the wrapped function being invoked ("" before the call)
    r_state,     \* "idle" | "attempt" | "sleep" | "returned" | "raised"
    r_attempt,   \* retry_state.attempt_number
    r_outs,      \* outcome of every attempt made so far, in order
    r_sleeps,    \* the waits slept so far, in order
    r_result     \* what the caller sees: "ok", an error name, or "" while running

retryVars == <<r_fn, r_state, r_attempt, r_outs, r_sleeps, r_result>>
mainVars == <<pc, args, exit_code, exit_reason, pdf_files, file_i, all_documents, failed_files, s_log>>
uploadVars == <<u_i, total_succeeded, total_failed, u_log, u_ret>>
histVars == <<attempted, results, u_calls, u_batches>>
driverVars == <<mainVars, uploadVars, histVars>>
pdfVars == <<p_state, p_cfg, p_env, p_result, p_calls>>
chunkVars == <<c_state, c_content, c_chunk_size, c_overlap, c_chunks>>
respVars == <<cr_state, cr_max_retries, cr_use_retry, cr_attempt, cr_outs, cr_sleeps,
              cr_last_exception, cr_result>>
skillVars == <<k_state, k_args, k_skillset>>
subVars == <<sm_state, sm_use_mock, sm_apim, sm_resp, sm_want>>
streamVars == <<st_gen, st_task, st_queue, st_produced, st_sent>>
agentVars == <<ag_inv, ag_threads, ag_uses>>

(***************************************************************************)
(* Errors an external call can fail with                                   *)
(***************************************************************************)
\* the exception types named by retry_if_exception_type on the OpenAI calls
Transient == {"RateLimitError", "APIConnectionError", "APITimeoutError"}

\* openai.APIError and its subclasses (all of Transient are subclasses too)
PermanentAPIErrors == {"BadRequestError", "AuthenticationError"}
APIErrors == Transient \cup PermanentAPIErrors

\* anything else: azure.core HttpResponseError, IndexError, ValueError ...
OtherErrors == {"HttpResponseError", "ValueError"}

ErrorKinds == APIErrors \cup OtherErrors

Outcomes == {"ok"} \cup ErrorKinds

(***************************************************************************)
(* The retry decorators                                                    *)
(***************************************************************************)
\* functions decorated with retry=retry_if_exception_type((RateLimitError, ...))
FilteredCalls == {"_call_embedding_api", "_call_vision_api"}

\* functions decorated without a retry= argument (tenacity then retries on
\* every Exception)
UnfilteredCalls ==
    {"create_document_index", "upload_pdf_to_blob", "extract_document_content", "_upload_batch"}

WrappedCalls == FilteredCalls \cup UnfilteredCalls

\* retry=...: does the decorator of fn retry after error e ?
RetryIf(fn, e) ==
    IF fn \in FilteredCalls THEN e \in Transient ELSE TRUE

\* a stop condition that allows one attempt too many
StopAfterAttempt_OffByOne(attempt) == attempt > RETRY_ATTEMPTS

\* stop=stop_after_attempt(RETRY_ATTEMPTS)
StopAfterAttempt(attempt) == attempt >= RETRY_ATTEMPTS

Min(a, b) == IF a < b THEN a ELSE b
Max(a, b) == IF a > b THEN a ELSE b

RECURSIVE Pow2(_)
Pow2(n) == IF n <= 0 THEN 1 ELSE 2 * Pow2(n - 1)

\* wait=wait_exponential(multiplier=1, min=RETRY_MIN_WAIT, max=RETRY_MAX_WAIT):
\* multiplier * 2 ** (attempt_number - 1), clamped to [min, max]
WaitExponential(attempt) ==
    Max(Max(0, RETRY_MIN_WAIT), Min(1 * Pow2(attempt - 1), RETRY_MAX_WAIT))

\* one pass of the retry loop after attempt number `attempt` ended with `out`:
\* "return" the result, "raise" the error to the caller (reraise=True raises
\* the error of the last attempt), or "sleep" and try again
RetryDecision(fn, attempt, out) ==
    IF out = "ok" THEN "return"
    ELSE IF ~RetryIf(fn, out) THEN "raise"
    ELSE IF StopAfterAttempt(attempt) THEN "raise"
    ELSE "sleep"

\* a whole invocation of wrapped function fn when attempt k would end with
\* outs[k]: how many attempts are made, what the caller sees, the waits slept
RECURSIVE RunRetryFrom(_, _, _)
RunRetryFrom(fn, outs, attempt) ==
    IF RetryDecision(fn, attempt, outs[attempt]) = "sleep"
    THEN LET r == RunRetryFrom(fn, outs, attempt + 1)
         IN  [r EXCEPT !.sleeps = <<WaitExponential(attempt)>> \o @]
    ELSE [attempts |-> attempt, outcome |-> outs[attempt], sleeps |-> <<>>]

RunRetry(fn, outs) == RunRetryFrom(fn, outs, 1)

(***************************************************************************)
(* One invocation of a wrapped function, attempt by attempt                *)
(***************************************************************************)
RetryInit ==
    /\ r_fn = ""
    /\ r_state = "idle"
    /\ r_attempt = 0
    /\ r_outs = <<>>
    /\ r_sleeps = <<>>
    /\ r_result = ""

\* the caller invokes the wrapped function
RetryCall(fn) ==
    /\ r_state = "idle"
    /\ r_fn' = fn
    /\ r_state' = "attempt"
    /\ r_attempt' = 1
    /\ UNCHANGED <<r_outs, r_sleeps, r_result>>

\* the wrapped body runs once and ends with outcome o
RetryAttempt(o) ==
    /\ r_state = "attempt"
    /\ r_outs' = Append(r_outs, o)
    /\ LET d == RetryDecision(r_fn, r_attempt, o)
       IN  /\ r_state' = (IF d = "return" THEN "returned"
                          ELSE IF d = "raise" THEN "raised" ELSE "sleep")
           /\ r_result' = (IF d = "sleep" THEN "" ELSE o)
    /\ UNCHANGED <<r_fn, r_attempt, r_sleeps>>

\* before_sleep logs, the loop sleeps for the computed wait, then the next attempt
RetrySleep ==
    /\ r_state = "sleep"
    /\ r_sleeps' = Append(r_sleeps, WaitExponential(r_attempt))
    /\ r_attempt' = r_attempt + 1
    /\ r_state' = "attempt"
    /\ UNCHANGED <<r_fn, r_outs, r_result>>

RetryNext ==
    \/ \E fn \in WrappedCalls : RetryCall(fn)
    \/ \E o \in Outcomes : RetryAttempt(o)
    \/ RetrySleep

(***************************************************************************)
(* Python values                                                           *)
(***************************************************************************)
None == "None"

\* `if v:` for the values the mapper tests: None, "" and [] are falsy
Truthy(v) == v \notin {None, "", "[]"}

\* `not text or not text.strip()`
Blank(text) == text \in {None, "", " "}

(***************************************************************************)
(* chunk_content                                                           *)
(***************************************************************************)
\* A Python str is a sequence of one-character strings.

\* the characters \s matches and str.strip() removes
Whitespace == {" ", "\n"}

\* re.split(r"\n\s*\n", ...): where the match that starts at position i ends
\* (0: no match starts there). The match starts with a newline, runs over
\* whitespace and ends with a newline; \s* is greedy, so it ends at the last
\* newline that can be reached over whitespace only.
MatchEnd(str, i) ==
    LET ends == {j \in (i + 1)..Len(str) :
                    /\ str[j] = "\n"
                    /\ \A k \in (i + 1)..(j - 1) : str[k] \in Whitespace}
    IN  IF str[i] = "\n" /\ ends # {}
        THEN CHOOSE j \in ends : \A k \in ends : k <= j
        ELSE 0

\* re.split: the pieces between the leftmost non-overlapping matches; `from` is
\* where the current piece starts, i the position scanned for a match
RECURSIVE ReSplit(_, _, _)
ReSplit(str, from, i) ==
    IF i > Len(str) THEN <<SubSeq(str, from, Len(str))>>
    ELSE IF MatchEnd(str, i) > 0
    THEN <<SubSeq(str, from, i - 1)>> \o ReSplit(str, MatchEnd(str, i) + 1, MatchEnd(str, i) + 1)
    ELSE ReSplit(str, from, i + 1)

\* str.strip()
RECURSIVE Strip(_)
Strip(str) ==
    IF str = <<>> THEN <<>>
    ELSE IF Head(str) \in Whitespace THEN Strip(Tail(str))
    ELSE IF str[Len(str)] \in Whitespace THEN Strip(SubSeq(str, 1, Len(str) - 1))
    ELSE str

\* para + "\n\n"
WithBreak(para) == para \o <<"\n", "\n">>

\* current_chunk[-overlap:] if len(current_chunk) > overlap else current_chunk
\* (s[-0:] is the whole of s)
OverlapText(current_chunk, overlap) ==
    IF Len(current_chunk) > overlap /\ overlap > 0
    THEN SubSeq(current_chunk, Len(current_chunk) - overlap + 1, Len(current_chunk))
    ELSE current_chunk

\* slices that leave a gap of one character between them
SliceStarts_Gap(n, chunk_size, overlap) ==
    [j \in 1..((n + chunk_size) \div (chunk_size + 1)) |-> (j - 1) * (chunk_size + 1)]

\* range(0, n, chunk_size - overlap)
SliceStarts(n, chunk_size, overlap) ==
    LET stride == chunk_size - overlap
    IN  [j \in 1..((n + stride - 1) \div stride) |-> (j - 1) * stride]

\* para[i : i + chunk_size] for every i of the range
Slices(para, chunk_size, overlap) ==
    LET starts == SliceStarts(Len(para), chunk_size, overlap)
    IN  [j \in 1..Len(starts) |->
            SubSeq(para, starts[j] + 1, Min(starts[j] + chunk_size, Len(para)))]

\* a counter that is not advanced after a yield
NextChunkIdx_Stuck(chunk_idx) == chunk_idx

\* chunk_idx += 1
NextChunkIdx(chunk_idx) == chunk_idx + 1

\* the chunks yielded for a run of slices, numbered from chunk_idx on
RECURSIVE YieldSlices(_, _, _)
YieldSlices(slices, j, chunk_idx) ==
    IF j > Len(slices) THEN [yielded |-> <<>>, chunk_idx |-> chunk_idx]
    ELSE LET rest == YieldSlices(slices, j + 1, NextChunkIdx(chunk_idx))
         IN  [yielded |-> << <<chunk_idx, slices[j]>> >> \o rest.yielded,
              chunk_idx |-> rest.chunk_idx]

\* the loop over the paragraphs from paragraph k on; the result is the state
\* of the generator after the loop
RECURSIVE ChunkLoop(_, _, _, _, _, _, _)
ChunkLoop(paragraphs, k, current_chunk, chunk_idx, yielded, chunk_size, overlap) ==
    IF k > Len(paragraphs)
    THEN [current_chunk |-> current_chunk, chunk_idx |-> chunk_idx, yielded |-> yielded]
    ELSE LET para == paragraphs[k]
         IN  IF Len(current_chunk) + Len(para) <= chunk_size
             THEN ChunkLoop(paragraphs, k + 1, current_chunk \o WithBreak(para), chunk_idx,
                            yielded, chunk_size, overlap)
             ELSE IF current_chunk # <<>>
             THEN ChunkLoop(paragraphs, k + 1,
                            OverlapText(current_chunk, overlap) \o WithBreak(para),
                            NextChunkIdx(chunk_idx),
                            Append(yielded, <<chunk_idx, Strip(current_chunk)>>),
                            chunk_size, overlap)
             ELSE LET sl == YieldSlices(Slices(para, chunk_size, overlap), 1, chunk_idx)
                  IN  ChunkLoop(paragraphs, k + 1, <<>>, sl.chunk_idx,
                                yielded \o sl.yielded, chunk_size, overlap)

\* a chunker that yields nothing for empty content
EmptyContentChunks_Nothing == <<>>

\* `if not content: yield 0, ""; return`
EmptyContentChunks == << <<0, <<>>>> >>

\* chunk_content(content, chunk_size, overlap): everything the generator yields
ChunkContent(content, chunk_size, overlap) ==
    IF content = <<>> THEN EmptyContentChunks
    ELSE LET paragraphs == ReSplit(content, 1, 1)
             end == ChunkLoop(paragraphs, 1, <<>>, 0, <<>>, chunk_size, overlap)
         IN  IF Strip(end.current_chunk) # <<>>
             THEN Append(end.yielded, <<end.chunk_idx, Strip(end.current_chunk)>>)
             ELSE end.yielded

\* the letter standing at position i of a text: every letter of a text is
\* different, so that a character of a chunk tells where it came from
Letter(i) == <<"a", "b", "c", "d", "e", "f", "g", "h", "i", "j">>[i]

\* the texts explored: every arrangement of letters, spaces and newlines
Texts ==
    UNION {{[i \in 1..n |-> IF pat[i] = "x" THEN Letter(i) ELSE pat[i]] :
               pat \in [1..n -> {"x", " ", "\n"}]} : n \in 0..MaxTextLen}

\* the configurations explored: 0 <= overlap < chunk_size, as for the defaults
\* 2000 and 200 that process_pdf uses
ChunkConfigs ==
    {cc \in [chunk_size : 1..MaxChunkSize, overlap : 0..(MaxChunkSize - 1)] :
        cc.overlap < cc.chunk_size}

ChunkInit ==
    /\ c_state = "idle"
    /\ c_content = <<>>
    /\ c_chunk_size = 1
    /\ c_overlap = 0
    /\ c_chunks = <<>>

\* a caller runs the generator to its end
Chunk(content, cc) ==
    /\ c_state = "idle"
    /\ c_state' = "done"
    /\ c_content' = content
    /\ c_chunk_size' = cc.chunk_size
    /\ c_overlap' = cc.overlap
    /\ c_chunks' = ChunkContent(content, cc.chunk_size, cc.overlap)

ChunkNext ==
    /\ c_state = "idle"
    /\ \E content \in Texts, cc \in ChunkConfigs : Chunk(content, cc)

(***************************************************************************)
(* create_response_with_retry (agents_v2/src/agents_utils.py)              *)
(***************************************************************************)
\* what one responses.create call can raise (both are Exceptions)
ResponseErrors == {"APIConnectionError", "RateLimitError"}

RespInit ==
    /\ cr_state = "idle"
    /\ cr_max_retries = 1
    /\ cr_use_retry = TRUE
    /\ cr_attempt = 0
    /\ cr_outs = <<>>
    /\ cr_sleeps = 0
    /\ cr_last_exception = None
    /\ cr_result = [kind |-> "pending", of |-> None]

\* the function is called: last_exception = None, the loop starts at attempt 1
RespCall(max_retries, use_retry) ==
    /\ cr_state = "idle"
    /\ cr_state' = "calling"
    /\ cr_max_retries' = max_retries
    /\ cr_use_retry' = use_retry
    /\ cr_attempt' = 1
    /\ UNCHANGED <<cr_outs, cr_sleeps, cr_last_exception, cr_result>>

\* a loop that sleeps after every failed attempt, the last one included
SleepsAfter_Always(attempt, max_retries) == TRUE

\* `if attempt < max_retries: await asyncio.sleep(1)`
SleepsAfter(attempt, max_retries) == attempt < max_retries

\* the raise after the loop: a new Exception that quotes the last error
FailedAfterRetries(max_retries, last_exception) ==
    [kind |-> "Exception", of |-> <<"Failed to get response after", max_retries,
                                   "attempts. Last error:", last_exception>>]

\* await openai_client.responses.create(...) ends with outcome o: the response
\* is returned, or the except branch runs
RespAttempt(o) ==
    /\ cr_state = "calling"
    /\ cr_outs' = Append(cr_outs, o)
    /\ IF o = "ok"
       THEN /\ cr_state' = "returned"
            /\ cr_result' = [kind |-> "response", of |-> Len(cr_outs) + 1]
            /\ UNCHANGED cr_last_exception
       ELSE IF ~cr_use_retry
       THEN /\ cr_state' = "raised"
            /\ cr_result' = [kind |-> o, of |-> Len(cr_outs) + 1]
            /\ UNCHANGED cr_last_exception
       ELSE /\ cr_last_exception' = o
            /\ IF SleepsAfter(cr_attempt, cr_max_retries)
               THEN cr_state' = "sleeping" /\ UNCHANGED cr_result
               ELSE /\ cr_state' = "raised"
                    /\ cr_result' = FailedAfterRetries(cr_max_retries, o)
    /\ UNCHANGED <<cr_max_retries, cr_use_retry, cr_attempt, cr_sleeps>>

\* asyncio.sleep(1) is over: the next loop iteration, or the raise after the
\* loop when the range is used up
RespSleep ==
    /\ cr_state = "sleeping"
    /\ cr_sleeps' = cr_sleeps + 1
    /\ IF cr_attempt < cr_max_retries
       THEN cr_state' = "calling" /\ cr_attempt' = cr_attempt + 1 /\ UNCHANGED cr_result
       ELSE /\ cr_state' = "raised"
            /\ cr_result' = FailedAfterRetries(cr_max_retries, cr_last_exception)
            /\ UNCHANGED cr_attempt
    /\ UNCHANGED <<cr_max_retries, cr_use_retry, cr_outs, cr_last_exception>>

RespNext ==
    \/ \E max_retries \in 1..MaxRetries, use_retry \in BOOLEAN : RespCall(max_retries, use_retry)
    \/ \E o \in {"ok"} \cup ResponseErrors : RespAttempt(o)
    \/ RespSleep

(***************************************************************************)
(* generate_embedding / generate_image_description                         *)
(***************************************************************************)
\* A call script says how one external request behaves: outs[k] is the
\* outcome of attempt k, value is what the service answers when it succeeds.

\* generate_embedding: the wrapped call is made only for non-blank text; every
\* except branch (RateLimitError, connection/timeout, APIError, Exception)
\* returns None
GenerateEmbedding(text, script) ==
    IF Blank(text) THEN None
    ELSE LET r == RunRetry("_call_embedding_api", script.outs)
         IN  IF r.outcome = "ok" THEN script.value ELSE None

\* generate_image_description: an empty or whitespace answer and every except
\* branch return ""
GenerateImageDescription(script) ==
    LET r == RunRetry("_call_vision_api", script.outs)
    IN  IF r.outcome = "ok"
        THEN (IF Blank(script.value) THEN "" ELSE script.value)
        ELSE ""

(***************************************************************************)
(* process_pdf                                                             *)
(***************************************************************************)
MIN_IMAGE_SIZE == 5000
BASE64_KEEP == 1000

\* hashlib.md5(str(file_path)).hexdigest()[:16]
GenerateDocumentId(file) == <<"md5_16", file.path>>

\* blob_client.url of blob "documents/<name>"
BlobUrl(file) == <<"blob:", "documents/", file.name>>

\* a mapper that stores the base64 string whole
StoredBase64_Whole(b64) == [of |-> b64.of, len |-> b64.len, suffix |-> ""]

\* img["base64"][:1000] + "..." if len(img["base64"]) > 1000 else img["base64"];
\* a base64 string is known by its source image and its length
StoredBase64(b64) ==
    IF b64.len > BASE64_KEEP
    THEN [of |-> b64.of, len |-> BASE64_KEEP + 3, suffix |-> "..."]
    ELSE [of |-> b64.of, len |-> b64.len, suffix |-> ""]

\* f"{document_id}-content-{chunk_idx}", piece by piece
ContentId(document_id, chunk_idx) == <<document_id, "-", "content", "-", chunk_idx>>

\* f"{document_id}-table-{table['index']}"
TableId(document_id, table) == <<document_id, "-", "table", "-", table.index>>

\* an image id built like the other two, without the page
ImageId_NoPage(document_id, img) == <<document_id, "-", "image", "-", img.index>>

\* f"{document_id}-image-p{img['page_number']}-{img['index']}"
ImageId(document_id, img) ==
    <<document_id, "-", "image", "-", "p", img.page_number, "-", img.index>>

\* a mapper that fills every vector field of every record
VectorKeys_All(kind) == {"content_vector", "table_vector", "image_vector"}

\* the vector fields the mapper sets on a record of each kind
VectorKeys(kind) ==
    CASE kind = "content" -> {"content_vector"}
      [] kind = "table"   -> {"content_vector", "table_vector"}
      [] kind = "image"   -> {"content_vector", "image_vector"}

\* an attachment that skips the `if embedding:` test and stores whatever
\* generate_embedding returned, None included
AttachVectors_Null(doc, keys, enabled, embedding) ==
    IF enabled THEN [k \in keys |-> embedding] @@ doc ELSE doc

\* `if embedding: doc[key] = embedding` for each key of the record's kind; the
\* other vector fields are left out of the record
AttachVectors(doc, keys, enabled, embedding) ==
    IF enabled /\ Truthy(embedding) THEN [k \in keys |-> embedding] @@ doc ELSE doc

\* the record of one content chunk (chunk = <<chunk_idx, text>> as yielded by
\* chunk_content)
ContentDoc(file, cfg, chunk, script) ==
    LET document_id == GenerateDocumentId(file)
        blob_url == BlobUrl(file)
        doc == [id |-> ContentId(document_id, chunk[1]),
                document_id |-> document_id,
                file_name |-> file.name,
                file_path |-> file.path,
                blob_url |-> blob_url,
                page_number |-> 1,
                chunk_index |-> chunk[1],
                chunk_type |-> "content",
                content |-> chunk[2],
                content_markdown |-> chunk[2],
                table_markdown |-> None,
                image_description |-> None,
                image_base64 |-> None,
                metadata |-> <<"source", "document_intelligence", "format", "markdown">>,
                citation |-> <<"[", file.name, "](", blob_url, ")">>,
                created_at |-> None]
        embedding == IF cfg.embedding THEN GenerateEmbedding(chunk[2], script) ELSE None
    IN  AttachVectors(doc, VectorKeys("content"), cfg.embedding, embedding)

\* the record of one extracted table
TableDoc(file, cfg, table, script) ==
    LET document_id == GenerateDocumentId(file)
        blob_url == BlobUrl(file)
        page_num == table.page_number
        doc == [id |-> TableId(document_id, table),
                document_id |-> document_id,
                file_name |-> file.name,
                file_path |-> file.path,
                blob_url |-> blob_url,
                page_number |-> page_num,
                chunk_index |-> table.index,
                chunk_type |-> "table",
                content |-> table.markdown,
                content_markdown |-> None,
                table_markdown |-> table.markdown,
                image_description |-> None,
                image_base64 |-> None,
                metadata |-> <<"source", "document_intelligence",
                               "rows", table.row_count, "columns", table.column_count>>,
                citation |-> <<"[", file.name, "](", blob_url, ")", " - Page ", page_num>>,
                created_at |-> None]
        embedding == IF cfg.embedding THEN GenerateEmbedding(table.markdown, script) ELSE None
    IN  AttachVectors(doc, VectorKeys("table"), cfg.embedding, embedding)

\* the record of one extracted image that passed the size filter
ImageDoc(file, cfg, img, visScript, script) ==
    LET document_id == GenerateDocumentId(file)
        blob_url == BlobUrl(file)
        description == GenerateImageDescription(visScript)
        doc == [id |-> ImageId(document_id, img),
                document_id |-> document_id,
                file_name |-> file.name,
                file_path |-> file.path,
                blob_url |-> blob_url,
                page_number |-> img.page_number,
                chunk_index |-> img.index,
                chunk_type |-> "image",
                content |-> description,
                content_markdown |-> None,
                table_markdown |-> None,
                image_description |-> description,
                image_base64 |-> StoredBase64(img.base64),
                metadata |-> <<"source", "image_extraction",
                               "extension", img.extension, "size", img.size>>,
                citation |-> <<"[", file.name, "](", blob_url, ")", " - Page ", img.page_number>>,
                created_at |-> None]
        embed == cfg.embedding /\ Truthy(description)
        embedding == IF embed THEN GenerateEmbedding(description, script) ELSE None
    IN  AttachVectors(doc, VectorKeys("image"), embed, embedding)

\* a filter that also drops an image of exactly MIN_IMAGE_SIZE bytes
TooSmall_Inclusive(img) == img.size <= MIN_IMAGE_SIZE

\* `if img["size"] < 5000: continue`
TooSmall(img) == img.size < MIN_IMAGE_SIZE

\* the image loop from image number i on: images below MIN_IMAGE_SIZE are skipped
RECURSIVE ImageDocs(_, _, _, _)
ImageDocs(file, cfg, env, i) ==
    IF i > Len(env.images) THEN <<>>
    ELSE LET img == env.images[i]
             rest == ImageDocs(file, cfg, env, i + 1)
         IN  IF TooSmall(img) THEN rest
             ELSE <<ImageDoc(file, cfg, img, env.vis[i], env.embI[i])>> \o rest

\* process_pdf(file, ...): cfg.embedding is `embedding_client and
\* embedding_deployment`, cfg.vision is `include_images and openai_client and
\* openai_deployment`; env holds what the collaborators do during this call.
\* The result says whether the call raised and holds the local list
\* `documents` as it stood when the call ended.
ProcessPdf(file, cfg, env) ==
    LET blob == RunRetry("upload_pdf_to_blob", env.blob)
        ext  == RunRetry("extract_document_content", env.extract)
        contentDocs == [i \in 1..Len(env.chunks) |->
                           ContentDoc(file, cfg, env.chunks[i], env.embC[i])]
        tableDocs   == [i \in 1..Len(env.tables) |->
                           TableDoc(file, cfg, env.tables[i], env.embT[i])]
    IN  IF blob.outcome # "ok"
        THEN [raised |-> TRUE, error |-> blob.outcome, documents |-> <<>>]
        ELSE IF ext.outcome # "ok"
        THEN [raised |-> TRUE, error |-> ext.outcome, documents |-> <<>>]
        ELSE IF ~cfg.vision
        THEN [raised |-> FALSE, error |-> "", documents |-> contentDocs \o tableDocs]
        ELSE IF env.images_error # ""
        THEN [raised |-> TRUE, error |-> env.images_error,
              documents |-> contentDocs \o tableDocs]
        ELSE [raised |-> FALSE, error |-> "",
              documents |-> contentDocs \o tableDocs \o ImageDocs(file, cfg, env, 1)]

\* the request generate_embedding makes for one item (none for blank text)
EmbeddingCalls(text, script, kind, page, index) ==
    IF Blank(text) THEN <<>>
    ELSE <<[fn |-> "_call_embedding_api", kind |-> kind, page |-> page, index |-> index,
            attempts |-> RunRetry("_call_embedding_api", script.outs).attempts]>>

\* the requests made for one image that passed the size filter: the vision
\* request, then the embedding request when there is a description to embed
ImageCalls(cfg, img, visScript, script) ==
    LET description == GenerateImageDescription(visScript)
    IN  <<[fn |-> "_call_vision_api", kind |-> "image", page |-> img.page_number,
           index |-> img.index,
           attempts |-> RunRetry("_call_vision_api", visScript.outs).attempts]>>
        \o (IF cfg.embedding /\ Truthy(description)
            THEN EmbeddingCalls(description, script, "image", img.page_number, img.index)
            ELSE <<>>)

\* the requests of the image loop from image number i on
RECURSIVE ImageLoopCalls(_, _, _)
ImageLoopCalls(cfg, env, i) ==
    IF i > Len(env.images) THEN <<>>
    ELSE LET img == env.images[i]
             rest == ImageLoopCalls(cfg, env, i + 1)
         IN  IF TooSmall(img) THEN rest
             ELSE ImageCalls(cfg, img, env.vis[i], env.embI[i]) \o rest

\* the requests of the chunk loop (or, with the tables, of the table loop)
\* from item number i on
RECURSIVE ItemCalls(_, _, _, _)
ItemCalls(texts, scripts, kind, i) ==
    IF i > Len(texts) THEN <<>>
    ELSE EmbeddingCalls(texts[i].text, scripts[i], kind, texts[i].page, texts[i].index)
         \o ItemCalls(texts, scripts, kind, i + 1)

\* every embedding and vision request process_pdf makes, in order
ProcessPdfCalls(file, cfg, env) ==
    LET blob == RunRetry("upload_pdf_to_blob", env.blob)
        ext  == RunRetry("extract_document_content", env.extract)
        chunks == [i \in 1..Len(env.chunks) |->
                      [text |-> env.chunks[i][2], page |-> 1, index |-> env.chunks[i][1]]]
        tables == [i \in 1..Len(env.tables) |->
                      [text |-> env.tables[i].markdown, page |-> env.tables[i].page_number,
                       index |-> env.tables[i].index]]
    IN  IF blob.outcome # "ok" \/ ext.outcome # "ok" THEN <<>>
        ELSE (IF cfg.embedding
              THEN ItemCalls(chunks, env.embC, "content", 1)
                   \o ItemCalls(tables, env.embT, "table", 1)
              ELSE <<>>)
             \o (IF cfg.vision /\ env.images_error = ""
                 THEN ImageLoopCalls(cfg, env, 1)
                 ELSE <<>>)

(***************************************************************************)
(* The documents and collaborator behaviours explored for one process_pdf  *)
(* call                                                                    *)
(***************************************************************************)
Files == [i \in 1..(MaxFiles + 1) |->
             [name |-> <<"doc", i, ".pdf">>, path |-> <<"pdfs/", "doc", i, ".pdf">>]]

AllOk == [k \in 1..RETRY_ATTEMPTS |-> "ok"]
FailOnce(e) == [k \in 1..RETRY_ATTEMPTS |-> IF k = 1 THEN e ELSE "ok"]
FailAlways(e) == [k \in 1..RETRY_ATTEMPTS |-> e]

\* behaviours of one embedding request
EmbScripts ==
    {[outs |-> AllOk, value |-> v] : v \in {"[0.1,0.2]", "[]"}}
    \cup {[outs |-> o, value |-> "[0.1,0.2]"] :
             o \in {FailOnce("RateLimitError"), FailAlways("RateLimitError"),
                    FailAlways("APIConnectionError"), FailAlways("APITimeoutError"),
                    FailOnce("BadRequestError"), FailOnce("ValueError")}}

\* behaviours of one vision request
VisScripts ==
    {[outs |-> AllOk, value |-> v] : v \in {"a chart", "", " ", None}}
    \cup {[outs |-> o, value |-> "a chart"] :
             o \in {FailOnce("RateLimitError"), FailAlways("RateLimitError"),
                    FailAlways("APIConnectionError"), FailAlways("APITimeoutError"),
                    FailOnce("AuthenticationError"), FailOnce("ValueError")}}

NoScript == [outs |-> AllOk, value |-> None]

\* behaviours of the blob upload and of the document analysis
StoreScripts == {AllOk, FailOnce("HttpResponseError"), FailAlways("HttpResponseError")}

\* base64.b64encode(image_data): 4 characters for every 3 bytes, padded
B64Len(size) == 4 * ((size + 2) \div 3)

\* what chunk_content yields: nothing (whitespace-only text), one empty chunk
\* (empty text), or n chunks numbered from 0
ChunkLists(n) ==
    {<<>>, << <<0, "">> >>} \cup {[i \in 1..m |-> <<i - 1, "txt">>] : m \in 1..n}

\* extracted["tables"]: index is the position in result.tables
TableLists(n) ==
    UNION {{[i \in 1..m |-> [index |-> i - 1, page_number |-> pg, row_count |-> 2,
                              column_count |-> 2, markdown |-> md]] :
                pg \in {1, 2}, md \in {"", "|a|b|"}} : m \in 0..n}

\* extract_images_from_pdf: the first image is on page 1, the later ones all
\* on page 1 or all on page 2; index is the position of the image on its page
ImageLists(n) ==
    UNION {{[i \in 1..m |-> [page_number |-> IF i = 1 THEN 1 ELSE pg,
                              index |-> IF i = 1 THEN 0 ELSE IF pg = 2 THEN i - 2 ELSE i - 1,
                              extension |-> "png",
                              base64 |-> [of |-> i, len |-> B64Len(sz[i])],
                              size |-> sz[i]]] :
                pg \in {1, 2}, sz \in [1..m -> {MIN_IMAGE_SIZE - 1, MIN_IMAGE_SIZE}]} :
           m \in 0..n}

DocShapes(n) ==
    {sh \in [chunks : ChunkLists(n), tables : TableLists(n), images : ImageLists(n)] :
        Len(sh.chunks) + Len(sh.tables) + Len(sh.images) <= n}

Cfgs == [embedding : BOOLEAN, vision : BOOLEAN]

\* one script per item: any script of S for an item whose request can be made
\* (made[i]), NoScript for an item whose request is never made
CallScripts(made, S) ==
    {f \in [1..Len(made) -> S \cup {NoScript}] :
        \A i \in 1..Len(made) : (f[i] = NoScript) <=> ~made[i]}

\* the collaborators' behaviour during one call on a document of shape sh
Env(sh, b, x, ie, ec, et, ei, v) ==
    [blob |-> b, extract |-> x, images_error |-> ie,
     chunks |-> sh.chunks, tables |-> sh.tables, images |-> sh.images,
     embC |-> ec, embT |-> et, embI |-> ei, vis |-> v]

EmptyShape == [chunks |-> <<>>, tables |-> <<>>, images |-> <<>>]

PdfInit ==
    /\ p_state = "idle"
    /\ p_cfg = [embedding |-> FALSE, vision |-> FALSE]
    /\ p_env = [blob |-> AllOk, extract |-> AllOk, images_error |-> "",
                chunks |-> <<>>, tables |-> <<>>, images |-> <<>>,
                embC |-> <<>>, embT |-> <<>>, embI |-> <<>>, vis |-> <<>>]
    /\ p_result = [raised |-> FALSE, error |-> "", documents |-> <<>>]
    /\ p_calls = <<>>

\* main calls process_pdf on a file
PdfProcess(cfg, env) ==
    /\ p_state = "idle"
    /\ p_cfg' = cfg
    /\ p_env' = env
    /\ p_result' = ProcessPdf(Files[1], cfg, env)
    /\ p_calls' = ProcessPdfCalls(Files[1], cfg, env)
    /\ p_state' = IF p_result'.raised THEN "raised" ELSE "returned"

\* a call in which the blob upload or the document analysis may give up (nothing
\* else is consulted then)
PdfProcessStore ==
    \E cfg \in Cfgs, b \in StoreScripts, x \in StoreScripts :
        PdfProcess(cfg, Env(EmptyShape, b, x, "", <<>>, <<>>, <<>>, <<>>))

\* a call on a document of any shape, with every behaviour of the embedding,
\* vision and image-extraction collaborators; an image is embedded only when
\* its description came back non-empty
PdfProcessDoc ==
    \E cfg \in Cfgs, sh \in DocShapes(MaxDocRecords) :
        \E ie \in (IF cfg.vision THEN {"", "RuntimeError"} ELSE {""}) :
            \E ec \in CallScripts([i \in 1..Len(sh.chunks) |-> cfg.embedding], EmbScripts),
               et \in CallScripts([i \in 1..Len(sh.tables) |-> cfg.embedding], EmbScripts),
               v  \in CallScripts([i \in 1..Len(sh.images) |->
                                      cfg.vision /\ ie = ""
                                      /\ sh.images[i].size >= MIN_IMAGE_SIZE], VisScripts) :
                \E ei \in CallScripts([i \in 1..Len(sh.images) |->
                                           cfg.vision /\ ie = "" /\ cfg.embedding
                                           /\ sh.images[i].size >= MIN_IMAGE_SIZE
                                           /\ Truthy(GenerateImageDescription(v[i]))],
                                       EmbScripts) :
                    PdfProcess(cfg, Env(sh, AllOk, AllOk, ie, ec, et, ei, v))

PdfNext ==
    /\ p_state = "idle"
    /\ (PdfProcessStore \/ PdfProcessDoc)

(***************************************************************************)
(* upload_documents                                                        *)
(***************************************************************************)
BATCH_SIZE == 100

\* a slice that also takes the first record of the next batch
Batch_Overlapping(documents, i) ==
    SubSeq(documents, i + 1, Min(i + BATCH_SIZE + 1, Len(documents)))

\* documents[i : i + batch_size]
Batch(documents, i) == SubSeq(documents, i + 1, Min(i + BATCH_SIZE, Len(documents)))

\* batch_num = i // batch_size + 1
BatchNum(i) == i \div BATCH_SIZE + 1

\* a loop that steps one record too far and so skips a record between batches
NextOffset_Skipping(i) == i + BATCH_SIZE + 1

\* the offset of the next loop iteration: range(0, len(documents), batch_size)
NextOffset(i) == i + BATCH_SIZE

\* a counter that also adds the count left over from the previous batch when
\* the call raised
SucceededAfter_Stale(total, raised, succeeded) == total + succeeded

\* total_succeeded after one loop iteration
SucceededAfter(total, raised, succeeded) ==
    IF raised THEN total ELSE total + succeeded

\* an except branch that counts a nominal batch instead of the records at hand
FailedAfter_Nominal(total, raised, succeeded, batch_len) ==
    IF raised THEN total + BATCH_SIZE ELSE total + batch_len - succeeded

\* a counter that forgets the records the store rejected one by one
FailedAfter_WholeBatchesOnly(total, raised, succeeded, batch_len) ==
    IF raised THEN total + batch_len ELSE total

\* total_failed after one loop iteration: len(batch) - succeeded when the call
\* returned, len(batch) in the except branch
FailedAfter(total, raised, succeeded, batch_len) ==
    IF raised THEN total + batch_len ELSE total + batch_len - succeeded

\* the closing log line of upload_documents
UploadCompleteLog(succeeded, failed, n) ==
    IF failed > 0
    THEN <<"WARNING", "Upload complete", succeeded, "succeeded", failed, "failed">>
    ELSE <<"INFO", "Upload complete", succeeded, "of", n, "succeeded">>

\* upload_documents has no return statement
UploadReturnValue(succeeded, failed) == [kind |-> "None", value |-> <<>>]

\* behaviours of one _upload_batch call on a batch of n records: how the
\* attempts end and how many records the store reports as succeeded
UploadScripts(n) ==
    {[outs |-> AllOk, succeeded |-> n],
     [outs |-> AllOk, succeeded |-> n - 1],
     [outs |-> FailOnce("HttpResponseError"), succeeded |-> n],
     [outs |-> FailAlways("HttpResponseError"), succeeded |-> n]}

\* one iteration of the batch loop: _upload_batch on the next batch, through
\* its retry decorator, then the counters
UploadBatch(script) ==
    /\ pc = "upload"
    /\ u_i < Len(all_documents)
    /\ LET batch == Batch(all_documents, u_i)
           r == RunRetry("_upload_batch", script.outs)
           raised == r.outcome # "ok"
       IN  /\ total_succeeded' = SucceededAfter(total_succeeded, raised, script.succeeded)
           /\ total_failed' = FailedAfter(total_failed, raised, script.succeeded, Len(batch))
           /\ u_calls' = u_calls \o
                  [k \in 1..r.attempts |->
                      [batch_num |-> BatchNum(u_i), start |-> u_i, len |-> Len(batch),
                       attempt |-> k]]
           /\ u_batches' = Append(u_batches,
                  [batch_num |-> BatchNum(u_i), start |-> u_i, len |-> Len(batch),
                   ids |-> [j \in 1..Len(batch) |-> batch[j].id],
                   raised |-> raised, attempts |-> r.attempts,
                   succeeded |-> IF raised THEN 0 ELSE script.succeeded])
    /\ u_i' = NextOffset(u_i)
    /\ UNCHANGED <<mainVars, u_log, u_ret, attempted, results>>

\* the loop is over: the closing log line, then the function returns to main
UploadFinish ==
    /\ pc = "upload"
    /\ u_i >= Len(all_documents)
    /\ u_log' = UploadCompleteLog(total_succeeded, total_failed, Len(all_documents))
    /\ u_ret' = UploadReturnValue(total_succeeded, total_failed)
    /\ pc' = "summary"
    /\ UNCHANGED <<args, exit_code, exit_reason, pdf_files, file_i, all_documents,
                   failed_files, s_log, u_i, total_succeeded, total_failed, histVars>>

(***************************************************************************)
(* main                                                                    *)
(***************************************************************************)
\* a parsed command line; `valid` is whether argparse accepts it (all required
\* options present)
Args(valid, index_only, vectors, skip, openai, embedding) ==
    [valid |-> valid, create_index_only |-> index_only, use_vectors |-> vectors,
     skip_images |-> skip, openai_endpoint |-> openai, embedding_endpoint |-> embedding]

\* the command lines explored: a rejected one, --create-index-only, and one for
\* each combination of backends handed to process_pdf
ArgsSet ==
    {Args(FALSE, FALSE, FALSE, FALSE, FALSE, FALSE),
     Args(TRUE, TRUE, FALSE, FALSE, FALSE, FALSE),
     Args(TRUE, FALSE, FALSE, TRUE, TRUE, FALSE),
     Args(TRUE, FALSE, FALSE, FALSE, TRUE, FALSE),
     Args(TRUE, FALSE, TRUE, FALSE, FALSE, TRUE),
     Args(TRUE, FALSE, TRUE, FALSE, TRUE, FALSE)}

\* which optional backends main hands to process_pdf
DriverCfg(a) ==
    [embedding |-> a.use_vectors /\ (a.embedding_endpoint \/ a.openai_endpoint),
     vision    |-> ~a.skip_images /\ a.openai_endpoint]

\* exit status of the script
EXIT_OK == 0
EXIT_UNHANDLED == 1
EXIT_USAGE == 2

\* a driver that treats an empty folder as an error
NoFilesExit_Fatal == EXIT_UNHANDLED

\* what main does when the glob finds no file: log a warning and return
NoFilesExit == EXIT_OK

DriverInit ==
    /\ pc = "start"
    /\ args = Args(FALSE, FALSE, FALSE, FALSE, FALSE, FALSE)
    /\ exit_code = -1
    /\ exit_reason = ""
    /\ pdf_files = <<>>
    /\ file_i = 1
    /\ all_documents = <<>>
    /\ failed_files = <<>>
    /\ s_log = <<>>
    /\ u_i = 0
    /\ total_succeeded = 0
    /\ total_failed = 0
    /\ u_log = <<>>
    /\ u_ret = [kind |-> "pending", value |-> <<>>]
    /\ attempted = <<>>
    /\ results = <<>>
    /\ u_calls = <<>>
    /\ u_batches = <<>>

\* parser.parse_args(): a missing required option ends the process with status 2
ParseArgs(a) ==
    /\ pc = "start"
    /\ args' = a
    /\ IF a.valid
       THEN pc' = "create_index" /\ UNCHANGED <<exit_code, exit_reason>>
       ELSE pc' = "exit" /\ exit_code' = EXIT_USAGE /\ exit_reason' = "usage"
    /\ UNCHANGED <<pdf_files, file_i, all_documents, failed_files, s_log,
                   uploadVars, histVars>>

\* create_document_index through its retry decorator; an error that survives
\* the retries is not caught by main. With --create-index-only main returns.
CreateIndex(outs) ==
    /\ pc = "create_index"
    /\ LET r == RunRetry("create_document_index", outs)
       IN  IF r.outcome # "ok"
           THEN pc' = "exit" /\ exit_code' = EXIT_UNHANDLED /\ exit_reason' = "unhandled"
           ELSE IF args.create_index_only
           THEN pc' = "exit" /\ exit_code' = EXIT_OK /\ exit_reason' = "index_only"
           ELSE pc' = "glob" /\ UNCHANGED <<exit_code, exit_reason>>
    /\ UNCHANGED <<args, pdf_files, file_i, all_documents, failed_files, s_log,
                   uploadVars, histVars>>

\* clients are built, the container is created (an error there is swallowed),
\* the folder is listed; no file: a warning and return
Glob(n) ==
    /\ pc = "glob"
    /\ pdf_files' = SubSeq(Files, 1, n)
    /\ IF n = 0
       THEN pc' = "exit" /\ exit_code' = NoFilesExit /\ exit_reason' = "no_files"
       ELSE pc' = "files" /\ UNCHANGED <<exit_code, exit_reason>>
    /\ UNCHANGED <<args, file_i, all_documents, failed_files, s_log, uploadVars, histVars>>

\* a loop body that keeps the records a failed call had built
TryProcess_KeepPartial(all, failed, name, res) ==
    [all_documents |-> all \o res.documents,
     failed_files |-> IF res.raised THEN Append(failed, name) ELSE failed]

\* the body of the loop over pdf_files: all_documents.extend(docs) when
\* process_pdf returned, failed_files.append(name) in the except branch
TryProcess(all, failed, name, res) ==
    IF res.raised
    THEN [all_documents |-> all, failed_files |-> Append(failed, name)]
    ELSE [all_documents |-> all \o res.documents, failed_files |-> failed]

\* a loop without the try/except: an error of process_pdf ends the run
ProcessFile_Uncaught(env) ==
    /\ pc = "files"
    /\ file_i <= Len(pdf_files)
    /\ LET f == pdf_files[file_i]
           res == ProcessPdf(f, DriverCfg(args), env)
       IN  /\ attempted' = Append(attempted, f.name)
           /\ results' = Append(results, [file |-> f.name, raised |-> res.raised,
                                          ids |-> [j \in 1..Len(res.documents) |->
                                                      res.documents[j].id]])
           /\ all_documents' = IF res.raised THEN all_documents
                                ELSE all_documents \o res.documents
           /\ pc' = IF res.raised THEN "exit" ELSE pc
           /\ exit_code' = IF res.raised THEN EXIT_UNHANDLED ELSE exit_code
           /\ exit_reason' = IF res.raised THEN "unhandled" ELSE exit_reason
    /\ file_i' = file_i + 1
    /\ UNCHANGED <<args, pdf_files, failed_files, s_log, uploadVars, u_calls, u_batches>>

\* one iteration of the loop over pdf_files: process_pdf inside try/except
ProcessFile(env) ==
    /\ pc = "files"
    /\ file_i <= Len(pdf_files)
    /\ LET f == pdf_files[file_i]
           res == ProcessPdf(f, DriverCfg(args), env)
       IN  /\ attempted' = Append(attempted, f.name)
           /\ results' = Append(results, [file |-> f.name, raised |-> res.raised,
                                          ids |-> [j \in 1..Len(res.documents) |->
                                                      res.documents[j].id]])
           /\ LET t == TryProcess(all_documents, failed_files, f.name, res)
              IN  /\ all_documents' = t.all_documents
                  /\ failed_files' = t.failed_files
    /\ file_i' = file_i + 1
    /\ UNCHANGED <<pc, args, exit_code, exit_reason, pdf_files, s_log, uploadVars,
                   u_calls, u_batches>>

\* the loop over pdf_files is over: `if all_documents:` upload_documents is
\* called (its counters start at 0)
FilesDone ==
    /\ pc = "files"
    /\ file_i > Len(pdf_files)
    /\ pc' = IF all_documents # <<>> THEN "upload" ELSE "summary"
    /\ UNCHANGED <<args, exit_code, exit_reason, pdf_files, file_i, all_documents, failed_files, s_log,
                   uploadVars, histVars>>

\* the summary line
SummaryLog(failed, files) ==
    IF failed # <<>>
    THEN <<"WARNING", "Completed with", Len(failed), "failed files", failed>>
    ELSE <<"INFO", "Successfully processed all", Len(files), "PDF files">>

\* the summary and "Done!"; main returns
Summary ==
    /\ pc = "summary"
    /\ s_log' = SummaryLog(failed_files, pdf_files)
    /\ pc' = "exit"
    /\ exit_code' = EXIT_OK
    /\ exit_reason' = "done"
    /\ UNCHANGED <<args, pdf_files, file_i, all_documents, failed_files, uploadVars, histVars>>

\* the documents a run is explored on: an empty one, one with a record of each
\* kind, one with half a batch of chunks and one with a whole batch
SmallShape ==
    [chunks |-> << <<0, "txt">> >>,
     tables |-> <<[index |-> 0, page_number |-> 2, row_count |-> 2, column_count |-> 2,
                   markdown |-> "|a|b|"]>>,
     images |-> <<[page_number |-> 1, index |-> 0, extension |-> "png",
                   base64 |-> [of |-> 1, len |-> B64Len(MIN_IMAGE_SIZE)],
                   size |-> MIN_IMAGE_SIZE]>>]

BigShape(n) == [chunks |-> [i \in 1..n |-> <<i - 1, "txt">>], tables |-> <<>>, images |-> <<>>]

EmbOk == [outs |-> AllOk, value |-> "[0.1,0.2]"]
EmbDown == [outs |-> FailAlways("RateLimitError"), value |-> "[0.1,0.2]"]
VisOk == [outs |-> AllOk, value |-> "a chart"]
VisDown == [outs |-> FailOnce("AuthenticationError"), value |-> "a chart"]

\* every request of one kind behaves the same way during one process_pdf call
UniformEnv(sh, ie, e, v) ==
    Env(sh, AllOk, AllOk, ie, [i \in 1..Len(sh.chunks) |-> e], [i \in 1..Len(sh.tables) |-> e],
        [i \in 1..Len(sh.images) |-> e], [i \in 1..Len(sh.images) |-> v])

\* what can happen while one file of a run is processed
DriverEnvs ==
    {Env(EmptyShape, FailAlways("HttpResponseError"), AllOk, "", <<>>, <<>>, <<>>, <<>>),
     Env(EmptyShape, FailOnce("HttpResponseError"), FailAlways("HttpResponseError"), "",
         <<>>, <<>>, <<>>, <<>>),
     UniformEnv(EmptyShape, "", EmbOk, VisOk),
     UniformEnv(SmallShape, "", EmbDown, VisDown),
     UniformEnv(SmallShape, "RuntimeError", EmbOk, VisOk),
     UniformEnv(BigShape(BATCH_SIZE \div 2), "", EmbOk, VisOk),
     UniformEnv(BigShape(BATCH_SIZE), "", EmbDown, VisOk)}

DriverNext ==
    \/ \E a \in ArgsSet : ParseArgs(a)
    \/ \E outs \in StoreScripts : CreateIndex(outs)
    \/ \E n \in 0..MaxFiles : Glob(n)
    \/ \E env \in DriverEnvs : ProcessFile(env)
    \/ FilesDone
    \/ \E script \in UploadScripts(Len(Batch(all_documents, u_i))) : UploadBatch(script)
    \/ UploadFinish
    \/ Summary

(***************************************************************************)
(* create_skillset (setup_indexer_pipeline.py)                             *)
(***************************************************************************)
\* A skill is recorded by its name, its context, the sources of its inputs,
\* the target names of its outputs and the settings taken from the arguments.

\* create_image_skills_verbalization: one WebApiSkill
ImageSkillsVerbalization(vision_endpoint, vision_deployment) ==
    << [name |-> "image-verbalization-skill",
        context |-> "/document/normalized_images/*",
        inputs |-> {"/document/normalized_images/*"},
        outputs |-> {"image_description"},
        settings |-> [uri |-> <<vision_endpoint, "/openai/deployments/", vision_deployment,
                                "/chat/completions">>]] >>

\* create_image_skills_vision_api: one ImageAnalysisSkill
ImageSkillsVisionApi ==
    << [name |-> "image-analysis-skill",
        context |-> "/document/normalized_images/*",
        inputs |-> {"/document/normalized_images/*"},
        outputs |-> {"image_description", "image_tags"},
        settings |-> [visual_features |-> {"description", "tags", "objects"}]] >>

DocIntelSkill ==
    [name |-> "document-intelligence-layout",
     context |-> "/document",
     inputs |-> {"/document/file_data"},
     outputs |-> {"layoutSections"},
     settings |-> [output_mode |-> "oneToMany"]]

\* the MergeSkill appended right after the image skills
MergeImageDescriptions ==
    [name |-> "merge-image-descriptions",
     context |-> "/document",
     inputs |-> {"/document/layoutSections/*/content",
                 "/document/normalized_images/*/image_description/captions/0/text"},
     outputs |-> {"merged_content"},
     settings |-> [insert_pre_tag |-> " [Image: "]]

\* the MergeSkill of the fixed-size branch
MergeContentSkill ==
    [name |-> "merge-content-skill",
     context |-> "/document",
     inputs |-> {"/document/layoutSections/*/content",
                 "/document/normalized_images/*/image_description/captions/*/text"},
     outputs |-> {"merged_content"},
     settings |-> [insert_pre_tag |-> " [Image: "]]

SplitSkill(context, source, overlap) ==
    [name |-> "text-split",
     context |-> context,
     inputs |-> {source},
     outputs |-> {"chunks"},
     settings |-> [maximum_page_length |-> 2000, page_overlap_length |-> overlap]]

EmbeddingSkill(context, source, a) ==
    [name |-> "embedding-skill",
     context |-> context,
     inputs |-> {source},
     outputs |-> {"vector"},
     settings |-> [resource_url |-> a.embedding_endpoint, dimensions |-> a.vector_dimensions]]

\* `if process_images:` the image skills of the chosen mode, then the merge
ImagePart(a) ==
    IF a.process_images
    THEN (IF a.image_skill_mode = "verbalization"
          THEN ImageSkillsVerbalization(
                   IF Truthy(a.vision_endpoint) THEN a.vision_endpoint ELSE a.embedding_endpoint,
                   a.vision_deployment)
          ELSE ImageSkillsVisionApi)
         \o << MergeImageDescriptions >>
    ELSE << >>

\* `if chunking_strategy == "layout":` split and embed, on the merged content
\* when images are processed and per layout section otherwise
LayoutPart(a) ==
    IF a.process_images
    THEN << SplitSkill("/document", "/document/merged_content", 200),
            EmbeddingSkill("/document/chunks/*", "/document/chunks/*", a) >>
    ELSE << SplitSkill("/document/layoutSections/*", "/document/layoutSections/*/content", 0),
            EmbeddingSkill("/document/layoutSections/*/chunks/*",
                           "/document/layoutSections/*/chunks/*", a) >>

\* the else branch: fixed-size chunking, with its own merge when images are processed
FixedPart(a) ==
    (IF a.process_images THEN << MergeContentSkill >> ELSE << >>)
    \o << SplitSkill("/document",
                     IF a.process_images THEN "/document/merged_content"
                                         ELSE "/document/layoutSections/*/content",
                     200),
          EmbeddingSkill("/document/chunks/*", "/document/chunks/*", a) >>

\* the list `skills` when the function reaches SearchIndexerSkillset(...)
SkillsOf(a) ==
    << DocIntelSkill >> \o ImagePart(a)
    \o (IF a.chunking_strategy = "layout" THEN LayoutPart(a) ELSE FixedPart(a))

\* `cognitive_services = None`, replaced when a key was given
CognitiveServices(a) ==
    IF Truthy(a.cognitive_services_key)
    THEN [key |-> a.cognitive_services_key]
    ELSE [key |-> None]

Skillset(a) ==
    [name |-> a.skillset_name,
     skills |-> SkillsOf(a),
     cognitive_services_account |-> CognitiveServices(a)]

\* the arguments main passes: the two choices of argparse for the strategy and
\* the image mode, --skip-images, and the optional endpoint, key and dimensions
SkillsetArgs ==
    [skillset_name : {"pdf-skillset"},
     embedding_endpoint : {"https://aoai"},
     vision_deployment : {"gpt-4o"},
     vector_dimensions : {1536, 3072},
     cognitive_services_key : {None, "key"},
     process_images : BOOLEAN,
     chunking_strategy : {"layout", "fixed"},
     image_skill_mode : {"verbalization", "vision-api"},
     vision_endpoint : {None, "https://vision"}]

SkillsetInit ==
    /\ k_state = "idle"
    /\ k_args = << >>
    /\ k_skillset = << >>

\* one call of create_skillset: the skillset is built and sent; the service
\* accepts it, or client.create_or_update_skillset raises
CreateSkillset(a, accepted) ==
    /\ k_state = "idle"
    /\ k_args' = a
    /\ k_skillset' = Skillset(a)
    /\ k_state' = IF accepted THEN "created" ELSE "raised"

SkillsetNext ==
    k_state = "idle" /\ \E a \in SkillsetArgs, accepted \in BOOLEAN : CreateSkillset(a, accepted)

(***************************************************************************)
(* The subscription manager: routers/subscriptions.py over APIMService     *)
(***************************************************************************)
\* A subscription is recorded by its id and its state.

\* the list literal of _get_mock_subscriptions
MockSubs ==
    << [id |-> "sub-001", state |-> "active"],
       [id |-> "sub-002", state |-> "active"],
       [id |-> "sub-003", state |-> "suspended"],
       [id |-> "sub-004", state |-> "active"],
       [id |-> "sub-005", state |-> "active"] >>

SubIds == {MockSubs[k].id : k \in 1..Len(MockSubs)}

\* the ids requests are made for: an active one, a suspended one, an unknown one
RequestIds == {"sub-001", "sub-003", "sub-999"}

\* _get_mock_subscriptions(None, None, 1, page_size) with page_size >= 5:
\* a list built anew by every call
GetMockSubscriptions == MockSubs

\* the loop of _get_mock_subscription finds an entry with this id
MockFound(subscription_id) ==
    \E k \in 1..Len(GetMockSubscriptions) : GetMockSubscriptions[k].id = subscription_id

\* _get_mock_subscription: the entry of a new list, or None
GetMockSubscription(subscription_id) ==
    IF MockFound(subscription_id)
    THEN LET k == CHOOSE k \in 1..Len(GetMockSubscriptions) :
                      GetMockSubscriptions[k].id = subscription_id
         IN  GetMockSubscriptions[k]
    ELSE None

\* _update_mock_subscription with SubscriptionUpdate(state=new_state): the
\* object looked up is changed and returned; the list it came from is dropped
UpdateMockSubscription(subscription_id, new_state) ==
    IF MockFound(subscription_id)
    THEN [GetMockSubscription(subscription_id) EXCEPT !.state = new_state]
    ELSE None

\* `if not subscription:` on what update_subscription returned in mock mode
MockUpdated(subscription_id, new_state) ==
    /\ MockFound(subscription_id)
    /\ UpdateMockSubscription(subscription_id, new_state).state = new_state

\* the subscriptions API Management lists, in id order
ApimOrder == << "sub-001", "sub-002", "sub-003", "sub-004", "sub-005" >>
ApimSubs(apim) == [k \in 1..Len(ApimOrder) |-> [id |-> ApimOrder[k], state |-> apim[ApimOrder[k]]]]

SmInit ==
    /\ sm_state = "down"
    /\ sm_use_mock = FALSE
    /\ sm_apim = [i \in SubIds |-> GetMockSubscription(i).state]
    /\ sm_resp = [op |-> "none", id |-> None, status |-> 0, subs |-> << >>]
    /\ sm_want = [i \in SubIds |-> "none"]

\* get_apim_service() builds the singleton from the settings
SmStartup(use_mock) ==
    /\ sm_state = "down"
    /\ sm_state' = "up"
    /\ sm_use_mock' = use_mock
    /\ UNCHANGED <<sm_apim, sm_resp, sm_want>>

\* POST /{id}/suspend and POST /{id}/activate: update_subscription with the
\* new state, 404 when it returns None, otherwise the table of
\* list_subscriptions(page=1, page_size=50).  In live mode upd_ok and list_ok
\* say whether the two API Management calls go through.
SmSetState(op, subscription_id, new_state, upd_ok, list_ok) ==
    /\ sm_state = "up"
    /\ IF sm_use_mock
       THEN /\ sm_resp' = IF MockUpdated(subscription_id, new_state)
                          THEN [op |-> op, id |-> subscription_id, status |-> 200,
                                subs |-> GetMockSubscriptions]
                          ELSE [op |-> op, id |-> subscription_id, status |-> 404, subs |-> << >>]
            /\ sm_want' = IF MockUpdated(subscription_id, new_state)
                          THEN [sm_want EXCEPT ![subscription_id] = new_state]
                          ELSE sm_want
            /\ UNCHANGED sm_apim
       ELSE IF ~upd_ok \/ subscription_id \notin SubIds
       THEN /\ sm_resp' = [op |-> op, id |-> subscription_id, status |-> 404, subs |-> << >>]
            /\ UNCHANGED <<sm_apim, sm_want>>
       ELSE /\ sm_apim' = [sm_apim EXCEPT ![subscription_id] = new_state]
            /\ IF list_ok
               THEN /\ sm_resp' = [op |-> op, id |-> subscription_id, status |-> 200,
                                   subs |-> ApimSubs(sm_apim')]
                    /\ sm_want' = [sm_want EXCEPT ![subscription_id] = new_state]
               ELSE /\ sm_resp' = [op |-> op, id |-> subscription_id, status |-> 500,
                                   subs |-> << >>]
                    /\ sm_want' = [sm_want EXCEPT ![subscription_id] = "none"]
    /\ UNCHANGED <<sm_state, sm_use_mock>>

SmSuspend(subscription_id, upd_ok, list_ok) ==
    SmSetState("suspend", subscription_id, "suspended", upd_ok, list_ok)

SmActivate(subscription_id, upd_ok, list_ok) ==
    SmSetState("activate", subscription_id, "active", upd_ok, list_ok)

\* GET /api/subscriptions without filters
SmList(list_ok) ==
    /\ sm_state = "up"
    /\ sm_resp' = IF sm_use_mock
                  THEN [op |-> "list", id |-> None, status |-> 200, subs |-> GetMockSubscriptions]
                  ELSE IF list_ok
                  THEN [op |-> "list", id |-> None, status |-> 200, subs |-> ApimSubs(sm_apim)]
                  ELSE [op |-> "list", id |-> None, status |-> 500, subs |-> << >>]
    /\ UNCHANGED <<sm_state, sm_use_mock, sm_apim, sm_want>>

\* GET /api/subscriptions/{id}/json: 404 when get_subscription returns None
SmGet(subscription_id, get_ok) ==
    /\ sm_state = "up"
    /\ sm_resp' = IF sm_use_mock
                  THEN (IF MockFound(subscription_id)
                        THEN [op |-> "get", id |-> subscription_id, status |-> 200,
                              subs |-> << GetMockSubscription(subscription_id) >>]
                        ELSE [op |-> "get", id |-> subscription_id, status |-> 404, subs |-> << >>])
                  ELSE IF get_ok /\ subscription_id \in SubIds
                  THEN [op |-> "get", id |-> subscription_id, status |-> 200,
                        subs |-> << [id |-> subscription_id, state |-> sm_apim[subscription_id]] >>]
                  ELSE [op |-> "get", id |-> subscription_id, status |-> 404, subs |-> << >>]
    /\ UNCHANGED <<sm_state, sm_use_mock, sm_apim, sm_want>>

SmNext ==
    \/ \E use_mock \in BOOLEAN : SmStartup(use_mock)
    \/ \E i \in RequestIds, upd_ok \in BOOLEAN, list_ok \in BOOLEAN : SmSuspend(i, upd_ok, list_ok)
    \/ \E i \in RequestIds, upd_ok \in BOOLEAN, list_ok \in BOOLEAN : SmActivate(i, upd_ok, list_ok)
    \/ \E list_ok \in BOOLEAN : SmList(list_ok)
    \/ \E i \in RequestIds, get_ok \in BOOLEAN : SmGet(i, get_ok)

(***************************************************************************)
(* POST /invoke/stream: invoke_agent_stream (sk-agents/routes.py)          *)
(***************************************************************************)
\* An event is recorded by its type and, for the intermediate ones, by its
\* position among the events the agent produced.
IntermediateTypes == {"tool_call", "tool_result", "text_chunk"}
TerminalTypes == {"final", "error"}

\* the None that invoke_agent puts last
EndSignal == [type |-> None, n |-> 0]

\* event_queue.put on an unbounded asyncio.Queue never waits
QueuePut_Lifo(q, e) == << e >> \o q
QueuePut(q, e) == Append(q, e)

StreamInit ==
    /\ st_gen = "idle"
    /\ st_task = "none"
    /\ st_queue = << >>
    /\ st_produced = << >>
    /\ st_sent = << >>

\* generate_events runs up to its first `await event_queue.get()`: the queue
\* exists and the background task is created
StreamStart ==
    /\ st_gen = "idle"
    /\ st_gen' = "waiting"
    /\ st_task' = "running"
    /\ UNCHANGED <<st_queue, st_produced, st_sent>>

\* the agent calls on_intermediate with one item, which becomes one event
OnIntermediate(type) ==
    /\ st_task = "running"
    /\ Len(st_produced) < MaxEvents
    /\ LET e == [type |-> type, n |-> Len(st_produced) + 1]
       IN  /\ st_produced' = Append(st_produced, e)
           /\ st_queue' = QueuePut(st_queue, e)
    /\ UNCHANGED <<st_gen, st_task, st_sent>>

\* invoke_master_agent returns (final) or raises an Exception (error)
InvokeEnds(type) ==
    /\ st_task = "running"
    /\ st_queue' = QueuePut(st_queue, [type |-> type, n |-> 0])
    /\ st_task' = "finally"
    /\ UNCHANGED <<st_gen, st_produced, st_sent>>

\* the finally clause: put(None), and the task is over
InvokeFinally ==
    /\ st_task = "finally"
    /\ st_queue' = QueuePut(st_queue, EndSignal)
    /\ st_task' = "done"
    /\ UNCHANGED <<st_gen, st_produced, st_sent>>

\* one turn of `while True`: get an event; None breaks the loop, anything
\* else is yielded
GetEvent ==
    /\ st_gen = "waiting"
    /\ st_queue # << >>
    /\ st_queue' = Tail(st_queue)
    /\ IF Head(st_queue) = EndSignal
       THEN st_gen' = "joining" /\ UNCHANGED st_sent
       ELSE st_sent' = Append(st_sent, Head(st_queue)) /\ UNCHANGED st_gen
    /\ UNCHANGED <<st_task, st_produced>>

\* `await task` after the loop, then the stream is closed
JoinTask ==
    /\ st_gen = "joining"
    /\ st_task = "done"
    /\ st_gen' = "ended"
    /\ UNCHANGED <<st_task, st_queue, st_produced, st_sent>>

\* the steps of the background task and those of the generator
TaskNext ==
    \/ \E type \in IntermediateTypes : OnIntermediate(type)
    \/ \E type \in TerminalTypes : InvokeEnds(type)
    \/ InvokeFinally

GenNext ==
    \/ StreamStart
    \/ GetEvent
    \/ JoinTask

StreamNext == TaskNext \/ GenNext

(***************************************************************************)
(* AgentManager, MasterAgentWrapper and LargeContextAgentWrapper           *)
(***************************************************************************)
\* An invocation is one call of MasterAgentWrapper.invoke / invoke_stream or
\* of LargeContextAgentWrapper.invoke on an initialized manager whose agents
\* are ready.  `thread` is the local variable of that call.

\* AzureAIAgentThread(client=self._client) constructs a new object: the n
\* objects made before are 1..n
NewThread_Shared(n) == 1
NewThread(n) == n + 1

\* `thread = agent_response.thread`: the agent answers on the thread it was given
ResponseThread(thread) == thread

Invocation(agent, via, parent, thread) ==
    [agent |-> agent, via |-> via, parent |-> parent, thread |-> thread,
     pc |-> "running", deleted |-> "no", result |-> "pending"]

\* the large context invocations made by tools of invocation i that have not returned
OpenCalls(inv, i) ==
    {k \in 1..Len(inv) : inv[k].parent = i /\ inv[k].pc # "returned"}

AgentsInit ==
    /\ ag_inv = << >>
    /\ ag_threads = 0
    /\ ag_uses = {}

\* the call runs up to `async for ... self._agent.invoke(..., thread=thread)`
StartInvocation(agent, via, parent) ==
    /\ Len(ag_inv) < MaxInvocations
    /\ ag_inv' = Append(ag_inv, Invocation(agent, via, parent, NewThread(ag_threads)))
    /\ ag_threads' = ag_threads + 1
    /\ ag_uses' = ag_uses \cup {<<NewThread(ag_threads), Len(ag_inv) + 1>>}

\* AgentManager.invoke_master_agent / invoke_master_agent_stream
InvokeMaster(via) == StartInvocation("master_agent", via, 0)

\* the tool invoke_large_context_agent of a running master invocation:
\* AgentManager.invoke_large_context_agent -> LargeContextAgentWrapper.invoke
InvokeLargeContext(i) ==
    /\ i \in 1..Len(ag_inv)
    /\ ag_inv[i].agent = "master_agent"
    /\ ag_inv[i].pc = "running"
    /\ StartInvocation("large_context_agent", "invoke", i)

\* the async for loop ends normally: the thread of the last response is kept
AgentCompletes(i) ==
    /\ i \in 1..Len(ag_inv)
    /\ ag_inv[i].pc = "running"
    /\ OpenCalls(ag_inv, i) = {}
    /\ ag_inv' = [ag_inv EXCEPT ![i].pc = "cleanup",
                                ![i].thread = ResponseThread(ag_inv[i].thread)]
    /\ UNCHANGED <<ag_threads, ag_uses>>

\* self._agent.invoke raises (or yields nothing, so that agent_response is
\* unbound): the outer `except Exception` builds the error result and returns
AgentRaises(i) ==
    /\ i \in 1..Len(ag_inv)
    /\ ag_inv[i].pc = "running"
    /\ OpenCalls(ag_inv, i) = {}
    /\ ag_inv' = [ag_inv EXCEPT ![i].pc = "returned", ![i].result = "error"]
    /\ UNCHANGED <<ag_threads, ag_uses>>

\* `await thread.delete()` inside its own try; a failure is logged or passed
\* over, and the call returns its result
DeleteThread(i, ok) ==
    /\ i \in 1..Len(ag_inv)
    /\ ag_inv[i].pc = "cleanup"
    /\ ag_inv' = [ag_inv EXCEPT ![i].pc = "returned", ![i].result = "ok",
                                ![i].deleted = IF ok THEN "ok" ELSE "failed"]
    /\ ag_uses' = ag_uses \cup {<<ag_inv[i].thread, i>>}
    /\ UNCHANGED ag_threads

AgentsNext ==
    \/ \E via \in {"invoke", "invoke_stream"} : InvokeMaster(via)
    \/ \E i \in 1..MaxInvocations : InvokeLargeContext(i)
    \/ \E i \in 1..MaxInvocations : AgentCompletes(i)
    \/ \E i \in 1..MaxInvocations : AgentRaises(i)
    \/ \E i \in 1..MaxInvocations, ok \in BOOLEAN : DeleteThread(i, ok)

\* the variables of the other programs of the repository
otherVars == <<respVars, skillVars, subVars, streamVars, agentVars>>

vars == <<driverVars, pdfVars, retryVars, chunkVars, otherVars>>

OtherInit == RespInit /\ SkillsetInit /\ SmInit /\ StreamInit /\ AgentsInit

Init == DriverInit /\ PdfInit /\ RetryInit /\ ChunkInit /\ OtherInit

Spec == Init /\ [][DriverNext /\ UNCHANGED <<pdfVars, retryVars, chunkVars, otherVars>>]_vars
SpecRetry == Init /\ [][RetryNext /\ UNCHANGED <<driverVars, pdfVars, chunkVars, otherVars>>]_vars
SpecPdf == Init /\ [][PdfNext /\ UNCHANGED <<driverVars, retryVars, chunkVars, otherVars>>]_vars
SpecChunk == Init /\ [][ChunkNext /\ UNCHANGED <<driverVars, pdfVars, retryVars, otherVars>>]_vars

\* the variables of create_index.py
indexVars == <<driverVars, pdfVars, retryVars, chunkVars>>

SpecResp == Init /\ [][RespNext /\ UNCHANGED <<indexVars, skillVars, subVars, streamVars, agentVars>>]_vars
SpecSkillset == Init /\ [][SkillsetNext /\ UNCHANGED <<indexVars, respVars, subVars, streamVars, agentVars>>]_vars
SpecSubs == Init /\ [][SmNext /\ UNCHANGED <<indexVars, respVars, skillVars, streamVars, agentVars>>]_vars

StreamRest == <<indexVars, respVars, skillVars, subVars, agentVars>>
SpecStream == Init /\ [][StreamNext /\ UNCHANGED StreamRest]_vars
SpecAgents == Init /\ [][AgentsNext /\ UNCHANGED <<indexVars, respVars, skillVars, subVars, streamVars>>]_vars
\* the event loop runs every task that is ready, and the agent call ends
SpecStreamLive ==
    /\ SpecStream
    /\ WF_vars(TaskNext /\ UNCHANGED StreamRest)
    /\ WF_vars(GenNext /\ UNCHANGED StreamRest)

\* a run that keeps running: main is a sequential program
SpecLive == Spec /\ WF_vars(DriverNext /\ UNCHANGED <<pdfVars, retryVars, chunkVars, otherVars>>)

(***************************************************************************)
(* Properties                                                              *)
(***************************************************************************)
Range(seq) == {seq[i] : i \in DOMAIN seq}

CeilDiv(n, d) == (n + d - 1) \div d

Ids(docs) == [j \in 1..Len(docs) |-> docs[j].id]

Names(files) == [i \in 1..Len(files) |-> files[i].name]

\* the ids of the batches of loop iterations 1..k, one after the other
RECURSIVE BatchIdsUpTo(_)
BatchIdsUpTo(k) == IF k = 0 THEN <<>> ELSE BatchIdsUpTo(k - 1) \o u_batches[k].ids

\* the loop iterations whose batch holds the record with this id
BatchesOf(id) ==
    {k \in 1..Len(u_batches) : \E j \in 1..Len(u_batches[k].ids) : u_batches[k].ids[j] = id}

\* the requests made for loop iteration k
CallsOf(k) == {c \in 1..Len(u_calls) : u_calls[c].batch_num = k}

\* the ids of the records returned by the calls 1..k of process_pdf that did not
\* raise, in order
RECURSIVE ReturnedIdsUpTo(_)
ReturnedIdsUpTo(k) ==
    IF k = 0 THEN <<>>
    ELSE ReturnedIdsUpTo(k - 1) \o (IF results[k].raised THEN <<>> ELSE results[k].ids)

UploadReturned == u_ret.kind # "pending"
RunDone == exit_reason = "done"

\* C1: when the upload of a batch raises after its retries, exactly the
\* records of that batch are added to the failed count, nothing else is counted
\* because of it, and the loop goes on: once upload_documents has returned,
\* every batch of the list has been attempted.
C1_FailedBatchCountedAlone ==
    /\ [][(Len(u_batches') = Len(u_batches) + 1 /\ u_batches'[Len(u_batches')].raised)
            => /\ u_batches'[Len(u_batches')].ids = Ids(Batch(all_documents, u_i))
               /\ total_failed' = total_failed + Len(Batch(all_documents, u_i))
               /\ total_succeeded' = total_succeeded
               /\ pc' = "upload"]_vars
    /\ [](UploadReturned =>
            /\ Len(u_batches) = CeilDiv(Len(all_documents), BATCH_SIZE)
            /\ \A k \in 1..Len(u_batches) : CallsOf(k) # {})

\* a batch raised, the next batch was attempted and went through
C1_Witness ==
    /\ UploadReturned
    /\ \E k \in 1..Len(u_batches) :
          /\ k < Len(u_batches)
          /\ u_batches[k].raised
          /\ ~u_batches[k + 1].raised
          /\ total_failed = u_batches[k].len
          /\ total_succeeded = u_batches[k + 1].len

\* C7: upload_documents cuts the list into ceil(n/100) consecutive batches in
\* list order: all of 100 records except the last, which has 1 to 100; the
\* batches are disjoint, together hold every record, and are submitted one
\* after the other in list order.
C7_ConsecutiveBatches ==
    LET n == Len(all_documents)
    IN  /\ \A k \in 1..Len(u_batches) :
              /\ u_batches[k].batch_num = k
              /\ Len(u_batches[k].ids) \in 1..BATCH_SIZE
              /\ k < Len(u_batches) => Len(u_batches[k].ids) = BATCH_SIZE
              /\ k * BATCH_SIZE <= n => Len(u_batches[k].ids) = BATCH_SIZE
              /\ u_batches[k].ids =
                    [j \in 1..Len(u_batches[k].ids) |->
                        all_documents[(k - 1) * BATCH_SIZE + j].id]
        /\ \A c \in 1..Len(u_calls) :
              /\ u_calls[c].batch_num \in 1..Len(u_batches)
              /\ u_calls[c].len = Len(u_batches[u_calls[c].batch_num].ids)
              /\ c > 1 => u_calls[c - 1].batch_num <= u_calls[c].batch_num
        /\ UploadReturned =>
              /\ Len(u_batches) = CeilDiv(n, BATCH_SIZE)
              /\ BatchIdsUpTo(Len(u_batches)) = Ids(all_documents)

\* 150 records were uploaded as a batch of 100 followed by a batch of 50
C7_Witness ==
    /\ UploadReturned
    /\ Len(all_documents) = 150
    /\ Len(u_batches) = 2
    /\ Len(u_batches[1].ids) = 100
    /\ Len(u_batches[2].ids) = 50

\* C8 as claimed: upload_documents hands the aggregate succeeded and failed
\* counts back to its caller.
C8_ReturnsCounts ==
    UploadReturned =>
        /\ u_ret.kind = "counts"
        /\ u_ret.value = <<total_succeeded, total_failed>>

RECURSIVE SumSucceeded(_)
SumSucceeded(k) ==
    IF k = 0 THEN 0 ELSE SumSucceeded(k - 1) + u_batches[k].succeeded

\* C8 as amended: upload_documents adds up the succeeded and failed counts of
\* all batches and writes them to its closing log line; it returns None.
C8_CountsLoggedNotReturned ==
    UploadReturned =>
        /\ u_ret.kind = "None"
        /\ total_succeeded = SumSucceeded(Len(u_batches))
        /\ total_failed = Len(all_documents) - SumSucceeded(Len(u_batches))
        /\ u_log[3] = total_succeeded
        /\ IF total_failed > 0
           THEN u_log[1] = "WARNING" /\ u_log[5] = total_failed
           ELSE u_log[1] = "INFO" /\ u_log[5] = Len(all_documents)

\* an upload of several batches returned with some records failed, one batch
\* having raised
C8_Witness ==
    /\ UploadReturned
    /\ Len(u_batches) >= 2
    /\ total_failed > 0
    /\ total_succeeded > 0
    /\ \E k \in 1..Len(u_batches) : u_batches[k].raised
    /\ \E k \in 1..Len(u_batches) : ~u_batches[k].raised /\ u_batches[k].succeeded < u_batches[k].len

\* C6 as claimed: every record the mapper created during the run is a member
\* of exactly one uploaded batch.
C6_EveryCreatedRecordUploadedOnce ==
    RunDone =>
        \A k \in 1..Len(results) : \A id \in Range(results[k].ids) :
            Cardinality(BatchesOf(id)) = 1

\* C6 as amended: every record of a document whose process_pdf call returned
\* is a member of exactly one batch, and is submitted again only when that
\* whole batch is retried (at most RETRY_ATTEMPTS requests per batch, each
\* with the whole batch); the records a process_pdf call built before it
\* raised are discarded and are in no batch.
C6_ReturnedRecordsUploadedOnce ==
    /\ \A k \in 1..Len(u_batches) :
          /\ Cardinality(CallsOf(k)) = u_batches[k].attempts
          /\ u_batches[k].attempts \in 1..RETRY_ATTEMPTS
          /\ \A c \in CallsOf(k) : u_calls[c].len = Len(u_batches[k].ids)
    /\ \A k \in 1..Len(results) :
          results[k].raised => \A id \in Range(results[k].ids) : BatchesOf(id) = {}
    /\ UploadReturned =>
          \A k \in 1..Len(results) :
              ~results[k].raised =>
                  \A id \in Range(results[k].ids) : Cardinality(BatchesOf(id)) = 1

\* a finished run in which one call built records and then raised, another
\* returned records, and a batch was submitted more than once
C6_Witness ==
    /\ RunDone
    /\ \E k \in 1..Len(results) : results[k].raised /\ results[k].ids # <<>>
    /\ \E k \in 1..Len(results) : ~results[k].raised /\ results[k].ids # <<>>
    /\ \E k \in 1..Len(u_batches) : u_batches[k].attempts > 1

\* C2: a file whose processing raises is recorded by name in failed_files, none
\* of the records built for it reaches the accumulated list or a batch, the
\* loop goes on with the next file, and the records of the files that
\* succeeded are uploaded.
C2_FailedFileIsolated ==
    /\ attempted = Names(SubSeq(pdf_files, 1, file_i - 1))
    /\ Len(results) = Len(attempted)
    /\ (pc \in {"upload", "summary"} \/ RunDone) => Len(attempted) = Len(pdf_files)
    /\ Ids(all_documents) = ReturnedIdsUpTo(Len(results))
    /\ \A k \in 1..Len(results) :
          IF results[k].raised
          THEN /\ results[k].file \in Range(failed_files)
               /\ \A j \in 1..Len(all_documents) :
                     all_documents[j].file_name # results[k].file
               /\ \A id \in Range(results[k].ids) :
                     /\ \A j \in 1..Len(all_documents) : all_documents[j].id # id
                     /\ BatchesOf(id) = {}
          ELSE results[k].file \notin Range(failed_files)
    /\ RunDone => BatchIdsUpTo(Len(u_batches)) = ReturnedIdsUpTo(Len(results))

\* the first file raised after records were built for it, the second file
\* succeeded, and the run uploaded the second file's records
C2_Witness ==
    /\ RunDone
    /\ Len(results) >= 2
    /\ results[1].raised
    /\ results[1].ids # <<>>
    /\ ~results[2].raised
    /\ results[2].ids # <<>>
    /\ failed_files = <<pdf_files[1].name>>
    /\ u_calls # <<>>

\* C9: once at least one file was found, the run reaches its summary whatever
\* fails on the way, having called process_pdf on every file once, in order.
C9_RunReachesSummary ==
    /\ (pc = "files") ~> RunDone
    /\ [](RunDone => attempted = Names(pdf_files))

\* a finished run of several files in which a file failed, a record went
\* without its vector and a batch was given up
C9_Witness ==
    /\ RunDone
    /\ Len(pdf_files) >= 2
    /\ failed_files # <<>>
    /\ DriverCfg(args).embedding
    /\ \E j \in 1..Len(all_documents) : "content_vector" \notin DOMAIN all_documents[j]
    /\ \E k \in 1..Len(u_batches) : u_batches[k].raised

\* C10 as claimed: a run that finds no file ends with a non-zero exit status,
\* a run in which documents failed ends with status 0.
C10_NoFilesIsFatal ==
    /\ exit_reason = "no_files" => exit_code # EXIT_OK
    /\ (RunDone /\ failed_files # <<>>) => exit_code = EXIT_OK

\* C10 as amended: a run that finds no file logs a warning and ends normally
\* with status 0 without processing or uploading anything, just as a run in
\* which documents failed ends with status 0; the status is non-zero only
\* when the command line is rejected or index creation fails.
C10_NoFilesExitsNormally ==
    /\ exit_reason = "no_files" =>
          exit_code = EXIT_OK /\ attempted = <<>> /\ u_calls = <<>> /\ pdf_files = <<>>
    /\ RunDone => exit_code = EXIT_OK
    /\ exit_code \notin {-1, EXIT_OK} => exit_reason \in {"usage", "unhandled"}
    /\ exit_reason \in {"usage", "unhandled"} => exit_code \notin {-1, EXIT_OK}

\* the run ended because the folder held no file
C10_Witness == pc = "exit" /\ exit_reason = "no_files" /\ exit_code = EXIT_OK

(***************************************************************************)
(* Properties of process_pdf                                               *)
(***************************************************************************)
\* a request through a filtered retry decorator fails: some attempt fails after
\* only transient failures and is either not transient or the last one allowed
CallFails(outs) ==
    \E k \in 1..RETRY_ATTEMPTS :
        /\ outs[k] # "ok"
        /\ \A j \in 1..(k - 1) : outs[j] \in Transient
        /\ outs[k] \notin Transient \/ k = RETRY_ATTEMPTS

\* a call through an unfiltered retry decorator gives up
GivesUp(outs) == \A k \in 1..RETRY_ATTEMPTS : outs[k] # "ok"

VectorFields == {"content_vector", "table_vector", "image_vector"}
NoVector(doc) == DOMAIN doc \cap VectorFields = {}

\* how many of the first i images pass the size filter
KeptUpTo(i) == Cardinality({j \in 1..i : p_env.images[j].size >= MIN_IMAGE_SIZE})

\* C3: no outcome of an embedding or vision request makes process_pdf raise or
\* lose a record: the call raises only when the blob upload, the analysis or
\* the image extraction fails; otherwise every chunk, table and kept image has
\* its record, a record whose embedding failed has no vector field, and an image
\* whose description failed or came back empty has an empty description.
C3_DegradeNotAbort ==
    LET docs == p_result.documents
        nC == Len(p_env.chunks)
        nT == Len(p_env.tables)
        nI == Len(p_env.images)
    IN  p_state # "idle" =>
        /\ p_result.raised <=>
              \/ GivesUp(p_env.blob)
              \/ GivesUp(p_env.extract)
              \/ (p_cfg.vision /\ p_env.images_error # "")
        /\ ~p_result.raised =>
              /\ Len(docs) = nC + nT + (IF p_cfg.vision THEN KeptUpTo(nI) ELSE 0)
              /\ \A i \in 1..nC :
                    /\ docs[i].chunk_type = "content"
                    /\ docs[i].content = p_env.chunks[i][2]
                    /\ (p_cfg.embedding /\ CallFails(p_env.embC[i].outs)) => NoVector(docs[i])
              /\ \A i \in 1..nT :
                    /\ docs[nC + i].chunk_type = "table"
                    /\ docs[nC + i].content = p_env.tables[i].markdown
                    /\ (p_cfg.embedding /\ CallFails(p_env.embT[i].outs))
                          => NoVector(docs[nC + i])
              /\ \A i \in 1..nI :
                    (p_cfg.vision /\ p_env.images[i].size >= MIN_IMAGE_SIZE) =>
                        LET d == docs[nC + nT + KeptUpTo(i)]
                            noText == CallFails(p_env.vis[i].outs) \/ Blank(p_env.vis[i].value)
                        IN  /\ d.chunk_type = "image"
                            /\ d.chunk_index = p_env.images[i].index
                            /\ noText => (d.image_description = "" /\ d.content = ""
                                           /\ NoVector(d))
                            /\ ~noText => d.image_description = p_env.vis[i].value
                            /\ (p_cfg.embedding /\ CallFails(p_env.embI[i].outs))
                                  => NoVector(d)

\* a call returned although the embedding of a chunk was rate-limited on every
\* attempt and the description of an image failed
C3_Witness ==
    /\ p_state = "returned"
    /\ p_cfg.embedding
    /\ p_cfg.vision
    /\ Len(p_env.chunks) = 1
    /\ p_env.chunks[1][2] = "txt"
    /\ p_env.embC[1].outs = FailAlways("RateLimitError")
    /\ Len(p_env.images) = 1
    /\ p_env.images[1].size >= MIN_IMAGE_SIZE
    /\ p_env.vis[1].outs = FailOnce("ValueError")
    /\ Len(p_result.documents) = 2

(***************************************************************************)
(* Properties of the retry decorators                                      *)
(***************************************************************************)
ClaimedCalls == {"_call_embedding_api", "_call_vision_api", "_upload_batch"}

\* C4: an invocation makes at most 3 attempts; a successful attempt is the last
\* one and its result is returned; after 3 attempts that all failed with a
\* transient error the error of the last attempt is raised to the caller.
C4_AtMostThreeAttempts ==
    r_fn \in ClaimedCalls =>
        /\ r_attempt <= RETRY_ATTEMPTS
        /\ Len(r_outs) <= RETRY_ATTEMPTS
        /\ \A k \in 1..Len(r_outs) :
              r_outs[k] = "ok" =>
                  k = Len(r_outs) /\ r_state = "returned" /\ r_result = "ok"
        /\ r_state = "returned" => r_outs[Len(r_outs)] = "ok"
        /\ (Len(r_outs) = RETRY_ATTEMPTS /\ \A k \in 1..RETRY_ATTEMPTS : r_outs[k] \in Transient)
              => (r_state = "raised" /\ r_result = r_outs[RETRY_ATTEMPTS])

\* three attempts failed with transient errors and the last one was raised
C4_Witness ==
    /\ r_fn = "_call_embedding_api"
    /\ r_state = "raised"
    /\ r_outs = <<"RateLimitError", "APIConnectionError", "APITimeoutError">>
    /\ r_result = "APITimeoutError"

\* C5: for each of the three calls, an error that is not rate-limited,
\* connection-failed or timed-out reaches the caller after exactly one attempt,
\* with no retry and no backoff sleep.
C5_PermanentErrorNotRetried ==
    (r_fn \in ClaimedCalls /\ r_outs # <<>> /\ r_outs[1] \notin Transient \cup {"ok"}) =>
        /\ Len(r_outs) = 1
        /\ r_state = "raised"
        /\ r_result = r_outs[1]
        /\ r_sleeps = <<>>

\* C11: the only errors that end the whole run are configuration errors: a
\* run ends with a non-zero status only because the command line was rejected,
\* never because an external call made by main (index creation, container
\* creation, blob upload, extraction, embedding, vision, batch upload) failed.
C11_OnlyConfigErrorsEndRun ==
    (pc = "exit" /\ exit_code # EXIT_OK) => exit_reason = "usage"

(***************************************************************************)
(* Properties of chunk_content                                             *)
(***************************************************************************)
ChunkDone == c_state = "done"

\* the paragraphs chunk_content splits c_content into
Paragraphs == ReSplit(c_content, 1, 1)

\* needle occurs in hay as a run of consecutive characters
Contains(hay, needle) ==
    \E from \in 0..(Len(hay) - Len(needle)) :
        SubSeq(hay, from + 1, from + Len(needle)) = needle

\* C12: the indices chunk_content yields are 0, 1, 2, ... in that order: the
\* first is 0 and each later one is the one before plus 1.
C12_IndicesCountFromZero ==
    ChunkDone => \A k \in 1..Len(c_chunks) : c_chunks[k][1] = k - 1

\* a text of several paragraphs was cut, with overlap, into at least three
\* chunks, a sliced paragraph among them
C12_Witness ==
    /\ ChunkDone
    /\ c_overlap > 0
    /\ Len(Paragraphs) >= 2
    /\ Len(Paragraphs[1]) > c_chunk_size
    /\ Len(c_chunks) >= 3

\* C13: for a non-empty text no yielded chunk has empty text; an empty chunk
\* is yielded only for the empty text.
C13_NoEmptyChunk ==
    (ChunkDone /\ c_content # <<>>) =>
        \A k \in 1..Len(c_chunks) : c_chunks[k][2] # <<>>

\* C14: for the empty text chunk_content yields exactly one chunk, with index
\* 0 and empty text.
C14_EmptyTextOneEmptyChunk ==
    (ChunkDone /\ c_content = <<>>) => c_chunks = << <<0, <<>>>> >>

\* the empty text was chunked under a configuration with overlap
C14_Witness ==
    /\ ChunkDone
    /\ c_content = <<>>
    /\ c_overlap > 0
    /\ Len(c_chunks) = 1

\* C15: every paragraph longer than chunk_size, wherever it stands in the
\* text, is emitted as its slices of stride chunk_size - overlap, and no
\* slice is longer than chunk_size.
C15_LongParagraphSliced ==
    ChunkDone =>
        \A p \in 1..Len(Paragraphs) :
            Len(Paragraphs[p]) > c_chunk_size =>
                LET slices == Slices(Paragraphs[p], c_chunk_size, c_overlap)
                IN  \A j \in 1..Len(slices) :
                        /\ Len(slices[j]) <= c_chunk_size
                        /\ \E k \in 1..Len(c_chunks) : c_chunks[k][2] = slices[j]

PdfEnded == p_state # "idle"

\* the records in the local list `documents` when the call ended
Docs == p_result.documents

IdsPairwiseDistinct ==
    \A i, j \in 1..Len(Docs) : i # j => Docs[i].id # Docs[j].id

ImageRecordsOf(img) ==
    {k \in 1..Len(Docs) :
        /\ Docs[k].chunk_type = "image"
        /\ Docs[k].page_number = img.page_number
        /\ Docs[k].chunk_index = img.index}

\* the requests made for the image at this page and position
ImageRequestsOf(img) ==
    {c \in 1..Len(p_calls) :
        /\ p_calls[c].kind = "image"
        /\ p_calls[c].page = img.page_number
        /\ p_calls[c].index = img.index}

\* C18: an extracted image of less than 5000 bytes has no record and causes
\* no vision or embedding request; when image processing is enabled and the
\* call returns, every image of 5000 bytes or more has exactly one image
\* record.
C18_SmallImagesSkipped ==
    PdfEnded =>
        \A i \in 1..Len(p_env.images) :
            LET img == p_env.images[i]
            IN  /\ img.size < MIN_IMAGE_SIZE =>
                      (ImageRecordsOf(img) = {} /\ ImageRequestsOf(img) = {})
                /\ (img.size >= MIN_IMAGE_SIZE /\ p_cfg.vision /\ p_state = "returned")
                      => Cardinality(ImageRecordsOf(img)) = 1

\* with vision and embeddings on, a document with one image of 4999 bytes and
\* one of 5000 bytes gave one image record, described and embedded
C18_Witness ==
    /\ p_state = "returned"
    /\ p_cfg.vision
    /\ p_cfg.embedding
    /\ Len(p_env.images) = 2
    /\ p_env.images[1].size = MIN_IMAGE_SIZE - 1
    /\ p_env.images[2].size = MIN_IMAGE_SIZE
    /\ Len(Docs) = 1
    /\ "image_vector" \in DOMAIN Docs[1]
    /\ Len(p_calls) = 2

\* C19: a content record has no table_vector and no image_vector; a table
\* record has no image_vector, and a table_vector only with an equal
\* content_vector; an image record has no table_vector, and an image_vector only
\* with an equal content_vector; no vector field is present with a null value.
C19_KindAppropriateVectors ==
    PdfEnded =>
        \A i \in 1..Len(Docs) :
            LET d == Docs[i]
                has(k) == k \in DOMAIN d
            IN  /\ d.chunk_type = "content" => (~has("table_vector") /\ ~has("image_vector"))
                /\ d.chunk_type = "table" =>
                      /\ ~has("image_vector")
                      /\ has("table_vector") =>
                            (has("content_vector") /\ d.content_vector = d.table_vector)
                /\ d.chunk_type = "image" =>
                      /\ ~has("table_vector")
                      /\ has("image_vector") =>
                            (has("content_vector") /\ d.content_vector = d.image_vector)
                /\ \A k \in DOMAIN d \cap VectorFields : d[k] # None

\* a call returned a table record with its two vectors and an image record
\* with its two vectors
C19_Witness ==
    /\ p_state = "returned"
    /\ \E i \in 1..Len(Docs) :
          Docs[i].chunk_type = "table" /\ "table_vector" \in DOMAIN Docs[i]
    /\ \E i \in 1..Len(Docs) :
          Docs[i].chunk_type = "image" /\ "image_vector" \in DOMAIN Docs[i]

\* C20: every record, of every kind, has the citation
\* [filename](blob_url) - Page N with N the record's page_number.
C20_CitationHasPage ==
    PdfEnded =>
        \A i \in 1..Len(Docs) :
            Docs[i].citation = <<"[", Docs[i].file_name, "](", Docs[i].blob_url, ")",
                                 " - Page ", Docs[i].page_number>>

\* C21 as claimed: the stored image_base64 of an image record is the source
\* string cut to 1000 characters when the source is longer, so it is never
\* longer than 1000 characters; a source of at most 1000 characters is stored
\* unchanged.
C21_Base64AtMost1000 ==
    PdfEnded =>
        \A i \in 1..Len(p_env.images) : \A k \in ImageRecordsOf(p_env.images[i]) :
            LET src == p_env.images[i].base64
                stored == Docs[k].image_base64
            IN  /\ stored.of = src.of
                /\ stored.len <= BASE64_KEEP
                /\ src.len <= BASE64_KEEP => stored.len = src.len

\* C21 as amended: the stored image_base64 of an image record is the first
\* 1000 characters of the source string followed by "...", 1003 characters in
\* all; the source of a record is always longer than 1000 characters, because
\* only images of at least 5000 bytes get a record.
C21_Base64PrefixAndEllipsis ==
    PdfEnded =>
        \A i \in 1..Len(p_env.images) : \A k \in ImageRecordsOf(p_env.images[i]) :
            LET src == p_env.images[i].base64
                stored == Docs[k].image_base64
            IN  /\ src.len > BASE64_KEEP
                /\ stored.of = src.of
                /\ stored.suffix = "..."
                /\ stored.len = BASE64_KEEP + 3

\* an image of 5000 bytes, 6668 base64 characters, got its record
C21_Witness ==
    /\ p_state = "returned"
    /\ \E i \in 1..Len(p_env.images) :
          /\ p_env.images[i].base64.len = B64Len(MIN_IMAGE_SIZE)
          /\ ImageRecordsOf(p_env.images[i]) # {}

\* C24: the wait before the first retry is 2 seconds, every later wait is
\* double the one before, no wait is longer than 30 seconds, and there are at
\* most 2 waits.
C24_WaitsDouble ==
    /\ Len(r_sleeps) <= RETRY_ATTEMPTS - 1
    /\ \A k \in 1..Len(r_sleeps) :
          /\ r_sleeps[k] <= RETRY_MAX_WAIT
          /\ k = 1 => r_sleeps[k] = RETRY_MIN_WAIT
          /\ k > 1 => r_sleeps[k] = 2 * r_sleeps[k - 1]

\* C26: when upload_documents finishes, total_succeeded + total_failed is the
\* number of records in the list and neither counter is negative; while it
\* runs, the two counters add up to the records of the batches gone through.
C26_CountersAddUp ==
    /\ total_succeeded >= 0
    /\ total_failed >= 0
    /\ total_succeeded + total_failed = Min(u_i, Len(all_documents))
    /\ UploadReturned => total_succeeded + total_failed = Len(all_documents)

\* 150 records: the first batch went through whole, the second raised after
\* its retries; 100 succeeded and 50 failed
C26_Witness ==
    /\ UploadReturned
    /\ Len(all_documents) = 150
    /\ Len(u_batches) = 2
    /\ ~u_batches[1].raised
    /\ u_batches[2].raised
    /\ u_batches[2].attempts = RETRY_ATTEMPTS
    /\ total_succeeded = 100
    /\ total_failed = 50

\* C27: with overlap < chunk_size, no chunk chunk_content yields is longer
\* than chunk_size.
C27_ChunkLengthBounded ==
    (ChunkDone /\ c_overlap < c_chunk_size) =>
        \A k \in 1..Len(c_chunks) : Len(c_chunks[k][2]) <= c_chunk_size

(***************************************************************************)
(* Properties of create_response_with_retry                                *)
(***************************************************************************)
RespEnded == cr_state \in {"returned", "raised"}

\* C29: at most max_retries calls are made; the response of the first call
\* that succeeds is returned and no call follows it; with use_retry there is
\* one sleep after every failed attempt but the last, and an error is raised
\* only after max_retries failures in a row; without use_retry exactly one
\* call is made and its own exception is what the caller gets.
C29_BoundedRetryOfCreate ==
    /\ Len(cr_outs) <= cr_max_retries
    /\ \A k \in 1..(Len(cr_outs) - 1) : cr_outs[k] # "ok"
    /\ cr_state = "returned" =>
          /\ cr_outs[Len(cr_outs)] = "ok"
          /\ cr_result = [kind |-> "response", of |-> Len(cr_outs)]
          /\ cr_sleeps = Len(cr_outs) - 1
    /\ (cr_state = "raised" /\ cr_use_retry) =>
          /\ Len(cr_outs) = cr_max_retries
          /\ \A k \in 1..Len(cr_outs) : cr_outs[k] # "ok"
          /\ cr_sleeps = cr_max_retries - 1
          /\ cr_result.kind = "Exception"
    /\ (RespEnded /\ ~cr_use_retry) =>
          /\ Len(cr_outs) = 1
          /\ cr_sleeps = 0
          /\ cr_state = "raised" => cr_result = [kind |-> cr_outs[1], of |-> 1]

\* with max_retries 3 the first two calls failed and the third succeeded,
\* after two sleeps
C29_Witness ==
    /\ cr_state = "returned"
    /\ cr_use_retry
    /\ cr_max_retries = 3
    /\ Len(cr_outs) = 3
    /\ cr_sleeps = 2

(***************************************************************************)
(* Properties of create_skillset                                           *)
(***************************************************************************)
SkillsetSent == k_state \in {"created", "raised"}

\* the skills of the skillset that write target t in context c
WritersOf(c, t) ==
    {i \in 1..Len(k_skillset.skills) :
        k_skillset.skills[i].context = c /\ t \in k_skillset.skills[i].outputs}

\* C30: whatever process_images, chunking_strategy and image_skill_mode are,
\* no two skills of the skillset that create_skillset builds write the same
\* output target in the same context, and at most one skill produces
\* merged_content.
C30_NoTwoWritersOfOneTarget ==
    SkillsetSent =>
        /\ \A i, j \in 1..Len(k_skillset.skills) :
              (i # j /\ k_skillset.skills[i].context = k_skillset.skills[j].context) =>
                  k_skillset.skills[i].outputs \cap k_skillset.skills[j].outputs = {}
        /\ Cardinality({i \in 1..Len(k_skillset.skills) :
                           "merged_content" \in k_skillset.skills[i].outputs}) <= 1

(***************************************************************************)
(* Properties of the subscription manager                                  *)
(***************************************************************************)
\* C22: once a suspend (an activate) of a subscription has succeeded, the
\* table that call returns and every later list or get that succeeds show
\* the subscription in state suspended (active), in mock mode as in live mode.
C22_ShownStateFollowsLastChange ==
    sm_resp.status = 200 =>
        \A k \in 1..Len(sm_resp.subs) :
            sm_want[sm_resp.subs[k].id] # "none" =>
                sm_resp.subs[k].state = sm_want[sm_resp.subs[k].id]

(***************************************************************************)
(* Properties of POST /invoke/stream                                       *)
(***************************************************************************)
IsTerminal(e) == e.type \in TerminalTypes

\* what has been sent so far is the start of: every intermediate event in
\* the order the agent produced them, then one terminal event
SentInOrder ==
    /\ Len(st_sent) <= Len(st_produced) + 1
    /\ \A k \in 1..Len(st_sent) :
          IF k <= Len(st_produced)
          THEN st_sent[k] = st_produced[k]
          ELSE IsTerminal(st_sent[k]) /\ st_task \in {"finally", "done"}

\* once the loop is left, everything was sent and the last event is terminal
SentAllAtEnd ==
    st_gen \in {"joining", "ended"} =>
        /\ Len(st_sent) = Len(st_produced) + 1
        /\ IsTerminal(st_sent[Len(st_sent)])

\* C25: under every interleaving of the background task and the generator
\* the stream ends; exactly one terminal event (final or error) is sent and
\* it is the last one; every intermediate event is sent before it, in the
\* order the agent produced them.
C25_StreamEndsWithOneTerminal ==
    /\ [](SentInOrder /\ SentAllAtEnd)
    /\ <>(st_gen = "ended")

\* the task had finished, with two events still queued, before the generator
\* took them; the stream ended with three events sent, the last one final
C25_Witness ==
    /\ st_gen = "ended"
    /\ Len(st_sent) = 3
    /\ st_sent[1].type = "tool_call"
    /\ st_sent[2].type = "tool_result"
    /\ st_sent[3].type = "final"

(***************************************************************************)
(* Properties of the agent invocations                                     *)
(***************************************************************************)
\* C23: every invocation, overlapping or not, runs on a conversation thread
\* made for it: no thread is used by two invocations, large context
\* invocations made on behalf of a master invocation included.
C23_OwnThreadPerInvocation ==
    /\ \A u \in ag_uses, v \in ag_uses : u[1] = v[1] => u[2] = v[2]
    /\ \A i \in 1..Len(ag_inv) :
          /\ <<ag_inv[i].thread, i>> \in ag_uses
          /\ \A j \in 1..Len(ag_inv) : i # j => ag_inv[i].thread # ag_inv[j].thread

\* two master invocations, one through invoke and one through invoke_stream,
\* and a large context invocation made for the first are all running
C23_Witness ==
    /\ Len(ag_inv) = 3
    /\ \A i \in 1..3 : ag_inv[i].pc = "running"
    /\ ag_inv[1].agent = "master_agent" /\ ag_inv[1].via = "invoke"
    /\ ag_inv[2].agent = "master_agent" /\ ag_inv[2].via = "invoke_stream"
    /\ ag_inv[3].agent = "large_context_agent" /\ ag_inv[3].parent = 1

\* C28: when an invocation has returned, on the success path or on an error
\* path, the deletion of its thread has been attempted.
C28_DeletionAlwaysAttempted ==
    \A i \in 1..Len(ag_inv) :
        ag_inv[i].pc = "returned" => ag_inv[i].deleted # "no"

====
